---------------------------- MODULE Spec2Model ----------------------------
(***************************************************************************)
(* Evaluation and calibration engine of the ionospheric storm prediction   *)
(* backend: the scoring engine (BacktestingService.calculate_metrics),     *)
(* the event detector (RecentStormPerformanceService.detect_storms), the   *)
(* geographic climatology (GeographicClimatologyService) and the windowed  *)
(* backtest runner (BacktestingService.run_backtest).                      *)
(*                                                                         *)
(* Units.  Probabilities are integers in hundredths of a percent           *)
(* (40.00 % = 4000).  Kp is an integer in tenths (5.0 = 50, the fill value *)
(* 99.0 = 990).  TEC values and every mean are exact rationals             *)
(* [num, den].  Timestamps are integers: hours for the detector and the    *)
(* climatology, half hours for the backtest runner.                        *)
(***************************************************************************)
EXTENDS Integers, Sequences, FiniteSets, TLC

VARIABLES
    \* ---- scoring engine ----
    predictions,          \* calculate_metrics argument
    actuals,              \* calculate_metrics argument
    sweep,                \* threshold -> metrics returned by calculate_metrics
    m_pc,                 \* "idle" or "ready": the scoring engine has inputs
    \* ---- measurement store ----
    store,                \* set of HistoricalMeasurement rows (unique timestamp)
    \* ---- event detector ----
    d_args,               \* arguments of the detect_storms call
    d_pc,                 \* position of detect_storms
    measurements,         \* rows read from the store, ascending
    d_idx,                \* index of the next row of the for loop
    in_storm,
    storm_start,
    storm_measurements,
    storms,
    run_entry,            \* detector state when the current/last run began
    last_branch,          \* branch of the loop body taken by the last row
    d_return,             \* value returned by detect_storms
    d_calls,              \* number of detect_storms calls started
    d_prev_return,        \* value returned by the previous call
    \* ---- geographic climatology ----
    regional_climatologies,  \* region_code -> ((doy, kp_bin) -> tec_value)
    global_avg_tec,
    c_rows,               \* rows read by the latest build that found any
    c_pc,                 \* "idle", "ready", or "returned" after a lookup
    c_query,              \* arguments of the latest get_climatology_forecast
    c_forecast,           \* its return value
    \* ---- backtest runner ----
    b_args,               \* arguments of the run_backtest call
    b_pc,                 \* position of run_backtest
    all_measurements,     \* rows read once before the loop
    current_time,
    results,
    last_tick,            \* what the latest iteration of the while loop did
    b_status,             \* "none", "raised" or "returned"
    b_error,              \* message of the ValueError raised
    b_result,             \* the dictionary returned
    \* ---- ensemble blender ----
    e_pc,                 \* "idle", "start", "constructed" or "failed"
    e_args,               \* arguments of EnsembleStormPredictor(...)
    e_error,              \* message of the ValueError raised by __init__
    climatology_weight,
    model_weight,
    v2_model,             \* "none", "trained" or "untrained" (freshly built)
    climatology_table,
    climatology_loaded,
    e_call,               \* input and Oracle outcome of the latest predict_storm
    e_status,             \* "none", "raised" or "returned"
    e_result,             \* the dictionary returned by predict_storm
    \* ---- threshold optimizer ----
    o_pc,                 \* "idle", "call", "cv", "single" or "done"
    o_args,               \* arguments of the optimize_threshold call
    o_calls,              \* (method, optimal_threshold) of the earlier calls
    o_thresholds,         \* list(range(10, 91, threshold_step))
    o_tidx,               \* index of the next threshold of the sweep
    best_score,           \* None while it is +-inf
    best_threshold,
    o_sweep,              \* the list "results" of sweep entries
    o_folds,              \* the folds scored for the latest threshold
    o_result,             \* the dictionary returned by optimize_threshold
    \* ---- in-memory history ----
    h_pc,                 \* "idle", "new" (constructed) or "ready" (initialized)
    h_historical_data,    \* the deque historical_data, leftmost entry first
    h_latest_data,
    h_last_data_update,
    h_return,             \* "none", "data" or "empty": the latest return
    h_collected,          \* data points collected so far
    \* ---- impact assessment ----
    i_pc,                 \* "idle", "call" or "done"
    i_args,               \* arguments of the assess_impacts call
    i_result              \* the dictionary returned by assess_impacts

vars ==
    <<predictions, actuals, sweep, m_pc, store, d_args, d_pc, measurements, d_idx,
      in_storm, storm_start, storm_measurements, storms, run_entry,
      last_branch, d_return, d_calls, d_prev_return, regional_climatologies, global_avg_tec, c_rows,
      c_pc, c_query, c_forecast, b_args, b_pc, all_measurements, current_time,
      results, b_status, b_error, b_result, e_pc, e_args, e_error,
      climatology_weight, model_weight, v2_model, climatology_table,
      climatology_loaded, e_call, e_status, e_result, o_pc, o_args, o_calls,
      o_thresholds, o_tidx, best_score, best_threshold, o_sweep, o_folds,
      o_result, last_tick, h_pc, h_historical_data, h_latest_data,
      h_last_data_update, h_return, h_collected, i_pc, i_args, i_result>>

impactVars ==
    <<i_pc, i_args, i_result>>

historyVars ==
    <<h_pc, h_historical_data, h_latest_data, h_last_data_update, h_return,
      h_collected>>

optimizerVars ==
    <<o_pc, o_args, o_calls, o_thresholds, o_tidx, best_score,
      best_threshold, o_sweep, o_folds, o_result>>

ensembleVars ==
    <<e_pc, e_args, e_error, climatology_weight, model_weight, v2_model,
      climatology_table, climatology_loaded, e_call, e_status, e_result>>

metricsVars ==
    <<predictions, actuals, sweep, m_pc>>

detectVars ==
    <<d_args, d_pc, measurements, d_idx, in_storm, storm_start,
      storm_measurements, storms, run_entry, last_branch, d_return,
      d_calls, d_prev_return>>

\* Python's None for an optional value: <<>> is None, <<x>> is the value x
None ==
    <<>>

Some(x) ==
    <<x>>

backtestVars ==
    <<b_args, b_pc, all_measurements, current_time, results, last_tick,
      b_status, b_error, b_result>>

climVars ==
    <<regional_climatologies, global_avg_tec, c_rows, c_pc, c_query,
      c_forecast>>

-----------------------------------------------------------------------------
(* Generic helpers                                                         *)

Min(a, b) ==
    IF a <= b THEN a ELSE b

Max(a, b) ==
    IF a >= b THEN a ELSE b

Abs(a) ==
    IF a >= 0 THEN a ELSE -a

RECURSIVE Gcd(_, _)
Gcd(a, b) ==
    IF b = 0 THEN a ELSE Gcd(b, a % b)

\* exact rational n/d (d > 0), reduced
Rat(n, d) ==
    LET g == Gcd(Abs(n), d)
    IN  [num |-> n \div g, den |-> d \div g]

RatAdd(a, b) ==
    Rat(a.num * b.den + b.num * a.den, a.den * b.den)

RatSub(a, b) ==
    Rat(a.num * b.den - b.num * a.den, a.den * b.den)

RatMul(a, b) ==
    Rat(a.num * b.num, a.den * b.den)

RatLess(a, b) ==
    a.num * b.den < b.num * a.den

RECURSIVE RatSum(_)
RatSum(s) ==
    IF s = <<>> THEN Rat(0, 1) ELSE RatAdd(Head(s), RatSum(Tail(s)))

\* np.mean of a non-empty list of rationals
RatMean(s) ==
    RatMul(RatSum(s), Rat(1, Len(s)))

RECURSIVE SeqSum(_)
SeqSum(s) ==
    IF s = <<>> THEN 0 ELSE Head(s) + SeqSum(Tail(s))

\* all sequences over S of length 0..n
SeqsUpTo(S, n) ==
    UNION {[1..k -> S] : k \in 0..n}

\* pairs of equal-length sequences over S of length 0..n
PairsUpTo(S, n) ==
    UNION {[1..k -> S] \X [1..k -> S] : k \in 0..n}

-----------------------------------------------------------------------------
(* Scoring engine: BacktestingService.calculate_metrics                    *)

MaxSamples ==
    3

\* probabilities (hundredths of a percent) the bounded inputs are drawn from
ProbValues ==
    {1000, 5000, 9000}

Thresholds ==
    {1000, 4000, 5000, 9000}

ScenarioC_predictions ==
    <<1000, 2000, 8000, 9000>>

ScenarioC_actuals ==
    <<500, 1500, 8500, 9500>>

\* "x / y if y > 0 else 0.0"
GuardedRatio(x, y) ==
    IF y > 0 THEN Rat(x, y) ELSE Rat(0, 1)

\* np.sum over the boolean mask (pred_storm == ps) & (actual_storm == as)
CountWhere(preds, acts, threshold, ps, as) ==
    Cardinality({i \in 1..Len(preds) :
                    /\ (preds[i] >= threshold) = ps
                    /\ (acts[i] >= threshold) = as})

\* "2 * (precision * recall) / (precision + recall)
\*  if (precision + recall) > 0 else 0.0"
F1Score(precision, recall) ==
    LET s == RatAdd(precision, recall)
    IN  IF s.num > 0
        THEN Rat(2 * precision.num * recall.num * s.den,
                 precision.den * recall.den * s.num)
        ELSE Rat(0, 1)

\* np.mean(f(predictions, actuals)): NaN over empty arrays
MeanOver(preds, acts, f(_, _)) ==
    IF Len(preds) = 0 THEN [num |-> 0, den |-> 0]
    ELSE Rat(SeqSum([i \in 1..Len(preds) |-> f(preds[i], acts[i])]),
             Len(preds))

calculate_metrics_f1_unguarded(preds, acts, threshold) ==
    LET tp == CountWhere(preds, acts, threshold, TRUE, TRUE)
        tn == CountWhere(preds, acts, threshold, FALSE, FALSE)
        fp == CountWhere(preds, acts, threshold, TRUE, FALSE)
        fn == CountWhere(preds, acts, threshold, FALSE, TRUE)
    IN  [true_positives |-> tp, true_negatives |-> tn,
         false_positives |-> fp, false_negatives |-> fn,
         accuracy |-> GuardedRatio(tp + tn, Len(preds)),
         precision |-> GuardedRatio(tp, tp + fp),
         recall |-> GuardedRatio(tp, tp + fn),
         f1_score |-> IF tp > 0
                      THEN F1Score(GuardedRatio(tp, tp + fp),
                                   GuardedRatio(tp, tp + fn))
                      ELSE [num |-> 0, den |-> 0],
         false_alarm_rate |-> GuardedRatio(fp, fp + tn),
         mse |-> MeanOver(preds, acts, LAMBDA x, y : (x - y) * (x - y)),
         mae |-> MeanOver(preds, acts, LAMBDA x, y : Abs(x - y)),
         total_predictions |-> Len(preds),
         total_storms_actual |->
            Cardinality({i \in 1..Len(acts) : acts[i] >= threshold}),
         total_storms_predicted |->
            Cardinality({i \in 1..Len(preds) : preds[i] >= threshold})]

calculate_metrics_fp_copies_tp(preds, acts, threshold) ==
    LET tp == CountWhere(preds, acts, threshold, TRUE, TRUE)
        tn == CountWhere(preds, acts, threshold, FALSE, FALSE)
        fp == CountWhere(preds, acts, threshold, TRUE, TRUE)
        fn == CountWhere(preds, acts, threshold, FALSE, TRUE)
    IN  [true_positives |-> tp, true_negatives |-> tn,
         false_positives |-> fp, false_negatives |-> fn,
         accuracy |-> GuardedRatio(tp + tn, Len(preds)),
         precision |-> GuardedRatio(tp, tp + fp),
         recall |-> GuardedRatio(tp, tp + fn),
         f1_score |-> F1Score(GuardedRatio(tp, tp + fp),
                              GuardedRatio(tp, tp + fn)),
         false_alarm_rate |-> GuardedRatio(fp, fp + tn),
         mse |-> MeanOver(preds, acts, LAMBDA x, y : (x - y) * (x - y)),
         mae |-> MeanOver(preds, acts, LAMBDA x, y : Abs(x - y)),
         total_predictions |-> Len(preds),
         total_storms_actual |->
            Cardinality({i \in 1..Len(acts) : acts[i] >= threshold}),
         total_storms_predicted |->
            Cardinality({i \in 1..Len(preds) : preds[i] >= threshold})]

calculate_metrics_pred_below(preds, acts, threshold) ==
    LET tp == CountWhere(preds, acts, threshold, TRUE, TRUE)
        tn == CountWhere(preds, acts, threshold, FALSE, FALSE)
        fp == CountWhere(preds, acts, threshold, TRUE, FALSE)
        fn == CountWhere(preds, acts, threshold, FALSE, TRUE)
    IN  [true_positives |-> tp, true_negatives |-> tn,
         false_positives |-> fp, false_negatives |-> fn,
         accuracy |-> GuardedRatio(tp + tn, Len(preds)),
         precision |-> GuardedRatio(tp, tp + fp),
         recall |-> GuardedRatio(tp, tp + fn),
         f1_score |-> F1Score(GuardedRatio(tp, tp + fp),
                              GuardedRatio(tp, tp + fn)),
         false_alarm_rate |-> GuardedRatio(fp, fp + tn),
         mse |-> MeanOver(preds, acts, LAMBDA x, y : (x - y) * (x - y)),
         mae |-> MeanOver(preds, acts, LAMBDA x, y : Abs(x - y)),
         total_predictions |-> Len(preds),
         total_storms_actual |->
            Cardinality({i \in 1..Len(acts) : acts[i] >= threshold}),
         total_storms_predicted |->
            Cardinality({i \in 1..Len(preds) : preds[i] <= threshold})]

\* calculate_metrics: the classification metrics and, of the regression
\* metrics, mse and mae (rmse, mape and r_squared are computed from the same
\* arrays and feed nothing else)
calculate_metrics(preds, acts, threshold) ==
    LET tp == CountWhere(preds, acts, threshold, TRUE, TRUE)
        tn == CountWhere(preds, acts, threshold, FALSE, FALSE)
        fp == CountWhere(preds, acts, threshold, TRUE, FALSE)
        fn == CountWhere(preds, acts, threshold, FALSE, TRUE)
    IN  [true_positives |-> tp, true_negatives |-> tn,
         false_positives |-> fp, false_negatives |-> fn,
         accuracy |-> GuardedRatio(tp + tn, Len(preds)),
         precision |-> GuardedRatio(tp, tp + fp),
         recall |-> GuardedRatio(tp, tp + fn),
         f1_score |-> F1Score(GuardedRatio(tp, tp + fp),
                              GuardedRatio(tp, tp + fn)),
         false_alarm_rate |-> GuardedRatio(fp, fp + tn),
         mse |-> MeanOver(preds, acts, LAMBDA x, y : (x - y) * (x - y)),
         mae |-> MeanOver(preds, acts, LAMBDA x, y : Abs(x - y)),
         total_predictions |-> Len(preds),
         total_storms_actual |->
            Cardinality({i \in 1..Len(acts) : acts[i] >= threshold}),
         total_storms_predicted |->
            Cardinality({i \in 1..Len(preds) : preds[i] >= threshold})]

\* one call calculate_metrics(predictions, actuals, threshold); the scoring
\* engine is reused for every threshold over the same arrays
CalculateMetrics ==
    /\ m_pc = "ready"
    /\ \E threshold \in Thresholds \ DOMAIN sweep :
          sweep' = [t \in DOMAIN sweep \cup {threshold} |->
                       IF t = threshold
                       THEN calculate_metrics(predictions, actuals, threshold)
                       ELSE sweep[t]]
    /\ UNCHANGED <<predictions, actuals, m_pc, store>>
    /\ UNCHANGED detectVars
    /\ UNCHANGED climVars
    /\ UNCHANGED backtestVars
    /\ UNCHANGED ensembleVars
    /\ UNCHANGED optimizerVars
    /\ UNCHANGED historyVars
    /\ UNCHANGED impactVars

EmptyMap ==
    [t \in {} |-> 0]

\* GeographicClimatologyService.__init__
DefaultGlobalAvgTec ==
    Rat(1274, 100)

DefaultClimQuery ==
    [region_code |-> "global", target_date |-> 0, kp_scenario |-> 0]

ClimConstructed ==
    /\ regional_climatologies = EmptyMap
    /\ global_avg_tec = DefaultGlobalAvgTec
    /\ c_rows = <<>>
    /\ c_query = DefaultClimQuery
    /\ c_forecast = None

ClimIdle ==
    /\ ClimConstructed
    /\ c_pc = "idle"

EmptyMetrics ==
    [true_positives |-> 0, true_negatives |-> 0, false_positives |-> 0,
     false_negatives |-> 0, accuracy |-> [num |-> 0, den |-> 1],
     precision |-> [num |-> 0, den |-> 1], recall |-> [num |-> 0, den |-> 1],
     f1_score |-> [num |-> 0, den |-> 1],
     false_alarm_rate |-> [num |-> 0, den |-> 1],
     mse |-> [num |-> 0, den |-> 0], mae |-> [num |-> 0, den |-> 0],
     total_predictions |-> 0,
     total_storms_actual |-> 0, total_storms_predicted |-> 0]

\* the value of b_result while nothing has been returned
NoResult ==
    [metadata |-> [start_date |-> 0, end_date |-> 0, storm_threshold |-> 0,
                   sample_interval_hours |-> 0, total_predictions |-> 0],
     metrics |-> EmptyMetrics,
     predictions |-> <<>>,
     analysis |-> [missed_storms |-> <<>>, false_alarms |-> <<>>,
                   correct_predictions_count |-> 0]]

\* no iteration of the while loop has run
NoTick ==
    [current_time |-> 0, invoked |-> FALSE, input_features |-> <<>>,
     outcome |-> "none", emitted |-> FALSE]

BacktestLocalsInit ==
    /\ all_measurements = <<>>
    /\ current_time = 0
    /\ results = <<>>
    /\ last_tick = NoTick
    /\ b_status = "none"
    /\ b_error = ""
    /\ b_result = NoResult

BacktestIdle ==
    /\ b_args = [start_date |-> 0, end_date |-> 0, storm_threshold |-> 4000,
                 sample_interval_hours |-> 1]
    /\ b_pc = "idle"
    /\ BacktestLocalsInit

MetricsIdle ==
    /\ predictions = <<>>
    /\ actuals = <<>>
    /\ sweep = EmptyMap
    /\ m_pc = "idle"

DetectIdle ==
    /\ d_args = [start_date |-> 0, end_date |-> 0, kp_threshold |-> 50,
                 min_duration_hours |-> 3]
    /\ d_pc = "idle"
    /\ measurements = <<>>
    /\ d_idx = 0
    /\ in_storm = FALSE
    /\ storm_start = None
    /\ storm_measurements = <<>>
    /\ storms = <<>>
    /\ run_entry = None
    /\ last_branch = "none"
    /\ d_return = None
    /\ d_calls = 0
    /\ d_prev_return = None

\* not-a-number of the float arithmetic (np.mean of an empty list)
NaN ==
    [num |-> 0, den |-> 0]

\* the value of e_result while nothing has been returned
NoEnsembleResult ==
    [tec_forecast_24h |-> <<>>, climatology_forecast |-> <<>>,
     ensemble_method |-> [kind |-> "none", climatology_pct |-> 0,
                          model_pct |-> 0],
     model_version |-> "", has_error |-> FALSE]

EnsembleLocalsInit ==
    /\ e_error = ""
    /\ climatology_weight = 0
    /\ model_weight = 0
    /\ v2_model = "none"
    /\ climatology_table = [bins |-> EmptyMap, fill |-> NaN]
    /\ climatology_loaded = FALSE
    /\ e_call = [historical_data |-> <<>>, inference |-> None]
    /\ e_status = "none"
    /\ e_result = NoEnsembleResult

EnsembleIdle ==
    /\ e_pc = "idle"
    /\ e_args = [climatology_weight |-> 700000, model_weight |-> 300000,
                 model_loads |-> TRUE]
    /\ EnsembleLocalsInit

\* the value of o_result while nothing has been returned
NoOptimizerResult ==
    [optimal_threshold |-> 0, optimization_method |-> "",
     best_score |-> None, threshold_sweep |-> <<>>,
     optimal_metrics |-> EmptyMetrics, n_folds |-> 0,
     validation_type |-> ""]

OptimizerLocalsInit ==
    /\ o_thresholds = <<>>
    /\ o_tidx = 0
    /\ best_score = None
    /\ best_threshold = 0
    /\ o_sweep = <<>>
    /\ o_folds = <<>>
    /\ o_result = NoOptimizerResult

OptimizerIdle ==
    /\ o_pc = "idle"
    /\ o_args = [predictions |-> <<>>, actuals |-> <<>>,
                 optimization_method |-> "f1", cost_false_alarm |-> 1,
                 cost_missed_storm |-> 5, threshold_step |-> 5]
    /\ o_calls = <<>>
    /\ OptimizerLocalsInit

NoAssessment ==
    [gps |-> [degraded_accuracy_m |-> 0, impact_score |-> 0,
              impact_level |-> "unknown"],
     overall |-> [severity_score |-> 0, severity_level |-> "unknown",
                  confidence |-> "low"]]

ImpactIdle ==
    /\ i_pc = "idle"
    /\ i_args = [probability_24h |-> 0, kp_index |-> 30, tec_mean |-> 20,
                 latitude |-> 45]
    /\ i_result = NoAssessment

\* DataService.__init__: "max_history_size: int = 168"
MaxHistorySize ==
    168

HistoryIdle ==
    /\ h_pc = "idle"
    /\ h_historical_data = <<>>
    /\ h_latest_data = None
    /\ h_last_data_update = None
    /\ h_return = "none"
    /\ h_collected = 0

InitMetrics ==
    /\ \E pa \in PairsUpTo(ProbValues, MaxSamples)
                 \cup {<<ScenarioC_predictions, ScenarioC_actuals>>} :
          /\ predictions = pa[1]
          /\ actuals = pa[2]
    /\ sweep = EmptyMap
    /\ m_pc = "ready"
    /\ store = {}
    /\ DetectIdle
    /\ ClimIdle
    /\ BacktestIdle
    /\ EnsembleIdle
    /\ OptimizerIdle
    /\ HistoryIdle
    /\ ImpactIdle

NextMetrics ==
    CalculateMetrics

SpecMetrics ==
    InitMetrics /\ [][NextMetrics]_vars

-----------------------------------------------------------------------------
(* Measurement store: HistoricalDataRepository                             *)

\* a HistoricalMeasurement row (the columns the engine reads)
Measurement(ts, kp, tec, prob) ==
    [timestamp |-> ts, kp_index |-> kp, tec_mean |-> tec,
     storm_probability |-> prob]

RECURSIVE OrderByTimestamp(_)
OrderByTimestamp(rows) ==
    IF rows = {} THEN <<>>
    ELSE LET first == CHOOSE m \in rows :
                          \A o \in rows : m.timestamp <= o.timestamp
         IN  <<first>> \o OrderByTimestamp(rows \ {first})

\* SELECT ... WHERE timestamp >= start AND timestamp <= end ORDER BY timestamp
get_measurements_by_time_range(rows, start_time, end_time) ==
    OrderByTimestamp({m \in rows : /\ m.timestamp >= start_time
                                   /\ m.timestamp <= end_time})

-----------------------------------------------------------------------------
(* Event detector: RecentStormPerformanceService.detect_storms             *)

\* last hour of the bounded detector stores (hours 0..MaxHour)
MaxHour ==
    3

\* Kp values (tenths) of the bounded stores: quiet, G2, G4, the out-of-scale
\* value 9.9 and the fill value 99.0
KpValues ==
    {30, 60, 80, 99, 990}

KpFillValue ==
    990

TecFillValue ==
    999

\* kp_threshold (tenths) and min_duration_hours of the detect_storms calls
KpThresholds ==
    {50}

MinDurations ==
    {-1, 1, 2, 3}

\* (start_date, end_date) of the calls: the whole store, start = end,
\* start > end
DetectWindows ==
    {<<0, 10>>, <<1, 1>>, <<2, 1>>}

ScenarioA_kp ==
    <<30, 30, 60, 70, 80, 60, 30>>

ScenarioB_kp ==
    <<30, 60, 30, 60, 30>>

\* an hourly store whose i-th row (hour i-1) has Kp kps[i]
HourlyStore(kps) ==
    {Measurement(i - 1, kps[i], 10, None) : i \in 1..Len(kps)}

DetectorStores ==
    {{Measurement(h, f[h], 10, None) : h \in DOMAIN f} :
        f \in UNION {[H -> KpValues] : H \in SUBSET (0..MaxHour)}}
    \cup {HourlyStore(ScenarioA_kp), HourlyStore(ScenarioB_kp)}

\* round(x, 2) of the rational n/d as an integer number of hundredths;
\* an exact tie goes to the even neighbour
Round2(n, d) ==
    LET q == 100 * (n \div d) + (100 * (n % d)) \div d
        r == (100 * (n % d)) % d
    IN  IF 2 * r > d THEN q + 1
        ELSE IF 2 * r < d THEN q
        ELSE IF q % 2 = 0 THEN q ELSE q + 1

RECURSIVE SeqMax(_)
SeqMax(s) ==
    IF Len(s) = 1 THEN s[1] ELSE Max(Head(s), SeqMax(Tail(s)))

is_storm_conditions_no_fill_filter(m, kp_threshold) ==
    m.kp_index >= kp_threshold

\* "m.kp_index >= kp_threshold and m.kp_index < 99.0"
is_storm_conditions(m, kp_threshold) ==
    /\ m.kp_index >= kp_threshold
    /\ m.kp_index < KpFillValue

\* NOAA G-scale level of a Kp value (tenths)
classify_storm_severity(kp) ==
    IF kp >= 90 THEN 5
    ELSE IF kp >= 80 THEN 4
    ELSE IF kp >= 70 THEN 3
    ELSE IF kp >= 60 THEN 2
    ELSE IF kp >= 50 THEN 1
    ELSE 0

create_storm_summary_last_peak(start, ms) ==
    LET kps == [i \in 1..Len(ms) |-> ms[i].kp_index]
        peak_kp == SeqMax(kps)
        peak_i == CHOOSE i \in 1..Len(ms) :
                     /\ kps[i] = peak_kp
                     /\ \A j \in (i + 1)..Len(ms) : kps[j] # peak_kp
        tecs == SelectSeq([i \in 1..Len(ms) |-> ms[i].tec_mean],
                          LAMBDA t : t < TecFillValue)
    IN  [storm_id |-> start.timestamp,
         start_time |-> start.timestamp,
         end_time |-> ms[Len(ms)].timestamp,
         peak_time |-> ms[peak_i].timestamp,
         duration_hours |-> Len(ms),
         peak_kp |-> peak_kp * 10,
         avg_kp |-> Round2(SeqSum(kps), 10 * Len(ms)),
         max_tec |-> IF tecs = <<>> THEN 0 ELSE SeqMax(tecs) * 100,
         avg_tec |-> IF tecs = <<>> THEN 0
                     ELSE Round2(SeqSum(tecs), Len(tecs)),
         severity |-> classify_storm_severity(peak_kp)]

create_storm_summary_end_is_peak(start, ms) ==
    LET kps == [i \in 1..Len(ms) |-> ms[i].kp_index]
        peak_kp == SeqMax(kps)
        peak_i == CHOOSE i \in 1..Len(ms) :
                     /\ kps[i] = peak_kp
                     /\ \A j \in 1..(i - 1) : kps[j] # peak_kp
        tecs == SelectSeq([i \in 1..Len(ms) |-> ms[i].tec_mean],
                          LAMBDA t : t < TecFillValue)
    IN  [storm_id |-> start.timestamp,
         start_time |-> start.timestamp,
         end_time |-> ms[peak_i].timestamp,
         peak_time |-> ms[peak_i].timestamp,
         duration_hours |-> Len(ms),
         peak_kp |-> peak_kp * 10,
         avg_kp |-> Round2(SeqSum(kps), 10 * Len(ms)),
         max_tec |-> IF tecs = <<>> THEN 0 ELSE SeqMax(tecs) * 100,
         avg_tec |-> IF tecs = <<>> THEN 0
                     ELSE Round2(SeqSum(tecs), Len(tecs)),
         severity |-> classify_storm_severity(peak_kp)]

create_storm_summary_duration_spans(start, ms) ==
    LET kps == [i \in 1..Len(ms) |-> ms[i].kp_index]
        peak_kp == SeqMax(kps)
        peak_i == CHOOSE i \in 1..Len(ms) :
                     /\ kps[i] = peak_kp
                     /\ \A j \in 1..(i - 1) : kps[j] # peak_kp
        tecs == SelectSeq([i \in 1..Len(ms) |-> ms[i].tec_mean],
                          LAMBDA t : t < TecFillValue)
    IN  [storm_id |-> start.timestamp,
         start_time |-> start.timestamp,
         end_time |-> ms[Len(ms)].timestamp,
         peak_time |-> ms[peak_i].timestamp,
         duration_hours |-> ms[Len(ms)].timestamp - start.timestamp,
         peak_kp |-> peak_kp * 10,
         avg_kp |-> Round2(SeqSum(kps), 10 * Len(ms)),
         max_tec |-> IF tecs = <<>> THEN 0 ELSE SeqMax(tecs) * 100,
         avg_tec |-> IF tecs = <<>> THEN 0
                     ELSE Round2(SeqSum(tecs), Len(tecs)),
         severity |-> classify_storm_severity(peak_kp)]

\* _create_storm_summary: peak_kp, avg_kp, max_tec and avg_tec are in
\* hundredths (round(..., 2)); storm_id is the strftime of the start
\* timestamp, one id per start minute
create_storm_summary(start, ms) ==
    LET kps == [i \in 1..Len(ms) |-> ms[i].kp_index]
        peak_kp == SeqMax(kps)
        peak_i == CHOOSE i \in 1..Len(ms) :
                     /\ kps[i] = peak_kp
                     /\ \A j \in 1..(i - 1) : kps[j] # peak_kp
        tecs == SelectSeq([i \in 1..Len(ms) |-> ms[i].tec_mean],
                          LAMBDA t : t < TecFillValue)
    IN  [storm_id |-> start.timestamp,
         start_time |-> start.timestamp,
         end_time |-> ms[Len(ms)].timestamp,
         peak_time |-> ms[peak_i].timestamp,
         duration_hours |-> Len(ms),
         peak_kp |-> peak_kp * 10,
         avg_kp |-> Round2(SeqSum(kps), 10 * Len(ms)),
         max_tec |-> IF tecs = <<>> THEN 0 ELSE SeqMax(tecs) * 100,
         avg_tec |-> IF tecs = <<>> THEN 0
                     ELSE Round2(SeqSum(tecs), Len(tecs)),
         severity |-> classify_storm_severity(peak_kp)]

\* the detector's local variables
DetectorLocals(flag, start, ms, out) ==
    [in_storm |-> flag, storm_start |-> start, storm_measurements |-> ms,
     storms |-> out]

detect_step_short_run_stays_open(loc, m, kp_threshold, min_duration_hours) ==
    IF is_storm_conditions(m, kp_threshold)
    THEN IF ~loc.in_storm
         THEN [loc |-> DetectorLocals(TRUE, Some(m), <<m>>, loc.storms),
               branch |-> "begin"]
         ELSE [loc |-> DetectorLocals(TRUE, loc.storm_start,
                          Append(loc.storm_measurements, m), loc.storms),
               branch |-> "continue"]
    ELSE IF loc.in_storm /\ Len(loc.storm_measurements) >= min_duration_hours
         THEN [loc |-> DetectorLocals(FALSE, loc.storm_start, <<>>,
                          Append(loc.storms,
                                 create_storm_summary(loc.storm_start[1],
                                                      loc.storm_measurements))),
               branch |-> "emit"]
         ELSE IF loc.in_storm
              THEN [loc |-> loc, branch |-> "discard"]
              ELSE [loc |-> loc, branch |-> "quiet"]

\* body of "for m in measurements" for one row m
detect_step(loc, m, kp_threshold, min_duration_hours) ==
    IF is_storm_conditions(m, kp_threshold)
    THEN IF ~loc.in_storm
         THEN [loc |-> DetectorLocals(TRUE, Some(m), <<m>>, loc.storms),
               branch |-> "begin"]
         ELSE [loc |-> DetectorLocals(TRUE, loc.storm_start,
                          Append(loc.storm_measurements, m), loc.storms),
               branch |-> "continue"]
    ELSE IF loc.in_storm /\ Len(loc.storm_measurements) >= min_duration_hours
         THEN [loc |-> DetectorLocals(FALSE, loc.storm_start, <<>>,
                          Append(loc.storms,
                                 create_storm_summary(loc.storm_start[1],
                                                      loc.storm_measurements))),
               branch |-> "emit"]
         ELSE IF loc.in_storm
              THEN [loc |-> DetectorLocals(FALSE, loc.storm_start, <<>>,
                               loc.storms),
                    branch |-> "discard"]
              ELSE [loc |-> loc, branch |-> "quiet"]

\* "Handle storm that extends to end of period"
detect_finish(loc, min_duration_hours) ==
    IF loc.in_storm /\ Len(loc.storm_measurements) >= min_duration_hours
    THEN Append(loc.storms,
                create_storm_summary(loc.storm_start[1],
                                     loc.storm_measurements))
    ELSE loc.storms

Locals ==
    DetectorLocals(in_storm, storm_start, storm_measurements, storms)

\* calls of detect_storms made one after the other on one service object
MaxDetectCalls ==
    2

detect_locals_init_keeps_storms(left_behind) ==
    DetectorLocals(FALSE, None, <<>>, left_behind.storms)

\* "storms = []; in_storm = False; storm_start = None;
\*  storm_measurements = []": every call starts from new locals, whatever an
\* earlier call left behind
detect_locals_init(left_behind) ==
    DetectorLocals(FALSE, None, <<>>, <<>>)

\* detect_storms up to the for loop: the store is read once; an empty read
\* returns [] at once
DetectRead ==
    /\ d_pc = "call"
    /\ LET rows == get_measurements_by_time_range(store, d_args.start_date,
                                                  d_args.end_date)
       IN  /\ measurements' = rows
           /\ IF rows = <<>>
              THEN /\ d_pc' = "done"
                   /\ d_return' = Some(<<>>)
                   /\ d_idx' = d_idx
              ELSE /\ d_pc' = "loop"
                   /\ d_return' = d_return
                   /\ d_idx' = 1
    /\ LET fresh == detect_locals_init(Locals)
       IN  /\ in_storm' = fresh.in_storm
           /\ storm_start' = fresh.storm_start
           /\ storm_measurements' = fresh.storm_measurements
           /\ storms' = fresh.storms
    /\ UNCHANGED <<d_args, run_entry, last_branch, d_calls, d_prev_return,
                   store>>
    /\ UNCHANGED metricsVars
    /\ UNCHANGED climVars
    /\ UNCHANGED backtestVars
    /\ UNCHANGED ensembleVars
    /\ UNCHANGED optimizerVars
    /\ UNCHANGED historyVars
    /\ UNCHANGED impactVars

\* one iteration of the for loop
DetectStep ==
    /\ d_pc = "loop"
    /\ d_idx <= Len(measurements)
    /\ LET r == detect_step(Locals, measurements[d_idx], d_args.kp_threshold,
                            d_args.min_duration_hours)
       IN  /\ in_storm' = r.loc.in_storm
           /\ storm_start' = r.loc.storm_start
           /\ storm_measurements' = r.loc.storm_measurements
           /\ storms' = r.loc.storms
           /\ last_branch' = r.branch
           /\ run_entry' = IF r.branch = "begin" THEN Some(Locals)
                           ELSE run_entry
    /\ d_idx' = d_idx + 1
    /\ UNCHANGED <<d_args, d_pc, measurements, d_return, d_calls,
                   d_prev_return, store>>
    /\ UNCHANGED metricsVars
    /\ UNCHANGED climVars
    /\ UNCHANGED backtestVars
    /\ UNCHANGED ensembleVars
    /\ UNCHANGED optimizerVars
    /\ UNCHANGED historyVars
    /\ UNCHANGED impactVars

\* the same service object is called again with the same arguments over the
\* unchanged store; whatever the previous call left behind is still there
\* when the new call starts
DetectCallAgain ==
    /\ d_pc = "done"
    /\ d_calls < MaxDetectCalls
    /\ d_calls' = d_calls + 1
    /\ d_prev_return' = d_return
    /\ d_return' = None
    /\ d_pc' = "call"
    /\ run_entry' = None
    /\ last_branch' = "none"
    /\ UNCHANGED <<d_args, measurements, d_idx, in_storm, storm_start,
                   storm_measurements, storms, store>>
    /\ UNCHANGED metricsVars
    /\ UNCHANGED climVars
    /\ UNCHANGED backtestVars
    /\ UNCHANGED ensembleVars
    /\ UNCHANGED optimizerVars
    /\ UNCHANGED historyVars
    /\ UNCHANGED impactVars

\* after the loop: a run still open is emitted under the same rule, and the
\* list is returned
DetectFinish ==
    /\ d_pc = "loop"
    /\ d_idx > Len(measurements)
    /\ storms' = detect_finish(Locals, d_args.min_duration_hours)
    /\ d_return' = Some(storms')
    /\ d_pc' = "done"
    /\ UNCHANGED <<d_args, measurements, d_idx, in_storm, storm_start,
                   storm_measurements, run_entry, last_branch, d_calls,
                   d_prev_return, store>>
    /\ UNCHANGED metricsVars
    /\ UNCHANGED climVars
    /\ UNCHANGED backtestVars
    /\ UNCHANGED ensembleVars
    /\ UNCHANGED optimizerVars
    /\ UNCHANGED historyVars
    /\ UNCHANGED impactVars

InitDetect ==
    /\ MetricsIdle
    /\ ClimIdle
    /\ BacktestIdle
    /\ store \in DetectorStores
    /\ \E w \in DetectWindows, th \in KpThresholds, md \in MinDurations :
          d_args = [start_date |-> w[1], end_date |-> w[2],
                    kp_threshold |-> th, min_duration_hours |-> md]
    /\ d_pc = "call"
    /\ measurements = <<>>
    /\ d_idx = 0
    /\ in_storm = FALSE
    /\ storm_start = None
    /\ storm_measurements = <<>>
    /\ storms = <<>>
    /\ run_entry = None
    /\ last_branch = "none"
    /\ d_return = None
    /\ d_calls = 1
    /\ d_prev_return = None
    /\ EnsembleIdle
    /\ OptimizerIdle
    /\ HistoryIdle
    /\ ImpactIdle

NextDetect ==
    \/ DetectRead
    \/ DetectStep
    \/ DetectFinish
    \/ DetectCallAgain

SpecDetect ==
    InitDetect /\ [][NextDetect]_vars

\* ---- properties of the event detector ----

\* index pairs <<i, j>> of the maximal runs of rows satisfying InRun
MaximalRuns(ms, InRun(_)) ==
    {r \in (1..Len(ms)) \X (1..Len(ms)) :
        /\ r[1] <= r[2]
        /\ \A k \in r[1]..r[2] : InRun(ms[k])
        /\ (r[1] > 1) => ~InRun(ms[r[1] - 1])
        /\ (r[2] < Len(ms)) => ~InRun(ms[r[2] + 1])}

\* out holds exactly one event per run of length >= min_duration, in order
OneEventPerRun(out, ms, runs, min_duration) ==
    LET qualifying == {r \in runs : r[2] - r[1] + 1 >= min_duration}
    IN  /\ Len(out) = Cardinality(qualifying)
        /\ \A k \in 1..Len(out) :
              \E r \in qualifying :
                 /\ out[k].start_time = ms[r[1]].timestamp
                 /\ out[k].end_time = ms[r[2]].timestamp
                 /\ out[k].duration_hours = r[2] - r[1] + 1
        /\ \A k \in 1..Len(out) : \A l \in 1..Len(out) :
              (k < l) => out[k].start_time < out[l].start_time

\* C3 as stated: one event per maximal run of rows with activity >=
\* threshold of length >= min_duration (a run open at the end included),
\* shorter runs emit nothing and are never merged, and after a discarded run
\* the detector state equals the state before the run began.
C3_Original ==
    /\ (d_pc = "done") =>
          OneEventPerRun(d_return[1], measurements,
              MaximalRuns(measurements,
                          LAMBDA m : m.kp_index >= d_args.kp_threshold),
              d_args.min_duration_hours)
    /\ (last_branch = "discard") => (Locals = run_entry[1])

\* C3 (amended): one event per maximal run of rows with threshold <=
\* activity < 99.0 (fill values end a run) of length >= min_duration, a run
\* open at the end included; shorter runs emit nothing and are never merged;
\* after a discarded run the in_storm flag, the accumulated rows and the
\* emitted list equal their values before the run began (storm_start keeps
\* the first row of the discarded run).
C3_OneEventPerRun ==
    /\ (d_pc = "done") =>
          OneEventPerRun(d_return[1], measurements,
              MaximalRuns(measurements,
                          LAMBDA m : /\ m.kp_index >= d_args.kp_threshold
                                     /\ m.kp_index < 990),
              d_args.min_duration_hours)
    /\ (/\ d_pc = "done"
        /\ store = HourlyStore(ScenarioB_kp)
        /\ d_args.min_duration_hours = 2)
       => (d_return[1] = <<>>)
    /\ (last_branch = "discard") =>
          /\ in_storm = run_entry[1].in_storm
          /\ storm_measurements = run_entry[1].storm_measurements
          /\ storms = run_entry[1].storms
          /\ storm_start # None
          /\ storm_start # run_entry[1].storm_start

\* a short run was discarded, a later run still open at the end was emitted
C3_Witness ==
    /\ d_pc = "done"
    /\ d_args.min_duration_hours = 2
    /\ [i \in 1..Len(measurements) |-> measurements[i].kp_index]
          = <<60, 30, 60, 60>>
    /\ Len(d_return[1]) = 1
    /\ d_return[1][1].start_time = measurements[3].timestamp

ScenarioA_called ==
    /\ store = HourlyStore(ScenarioA_kp)
    /\ d_args = [start_date |-> 0, end_date |-> 10, kp_threshold |-> 50,
                 min_duration_hours |-> 2]
    /\ d_pc = "done"

\* C4 as stated: Scenario A yields exactly one event, spanning positions
\* 2-4, with peak 8.
C4_Original ==
    ScenarioA_called =>
        /\ Len(d_return[1]) = 1
        /\ d_return[1][1].start_time = 2
        /\ d_return[1][1].end_time = 4
        /\ d_return[1][1].peak_kp = 800

\* C4 (amended): Scenario A yields exactly one event, spanning positions
\* 2-5 (0-based; the second 6 is >= 5 and belongs to the run), of duration
\* 4, with peak 8 at position 4.
C4_ScenarioA ==
    ScenarioA_called =>
        /\ Len(d_return[1]) = 1
        /\ d_return[1][1].start_time = 2
        /\ d_return[1][1].end_time = 5
        /\ d_return[1][1].duration_hours = 4
        /\ d_return[1][1].peak_kp = 800
        /\ d_return[1][1].peak_time = 4

C4_Witness ==
    /\ ScenarioA_called
    /\ Len(d_return[1]) = 1
    /\ d_return[1][1].peak_kp = 800

\* C5: duration_hours of every emitted event is the number of rows read
\* whose timestamp lies in [start_time, end_time], endpoints included.
C5_DurationCountsRows ==
    \A k \in 1..Len(storms) :
        storms[k].duration_hours =
            Cardinality({i \in 1..Len(measurements) :
                            /\ measurements[i].timestamp >= storms[k].start_time
                            /\ measurements[i].timestamp <= storms[k].end_time})

\* an event over rows with a missing hour between them
C5_Witness ==
    /\ d_pc = "done"
    /\ \E k \in 1..Len(storms) :
          /\ storms[k].duration_hours >= 2
          /\ storms[k].end_time - storms[k].start_time >= storms[k].duration_hours

\* C9 as stated: a call with start >= end or a negative minimum duration
\* never returns a list.
C9_InvalidParametersRejected ==
    (\/ d_args.start_date >= d_args.end_date
     \/ d_args.min_duration_hours < 0)
    => (d_return = None)

\* C14: a second detect_storms call with the same arguments over the same
\* store returns the same StormEvent list as the first (ids, bounds,
\* durations, peaks, tiers and order are the fields of the list), and starts
\* from the same locals as a first call.
C14_Deterministic ==
    /\ (d_calls >= 2 /\ d_pc = "done") => (d_return = d_prev_return)
    /\ (d_calls >= 2 /\ d_pc = "loop" /\ d_idx = 1) =>
          (Locals = DetectorLocals(FALSE, None, <<>>, <<>>))

\* the second call has returned the one event the first call returned, after
\* a first call that also discarded a short run
C14_Witness ==
    /\ d_calls = 2
    /\ d_pc = "done"
    /\ d_prev_return # None
    /\ Len(d_prev_return[1]) = 1
    /\ d_return = d_prev_return
    /\ storm_start # None
    /\ storm_start[1].timestamp > d_return[1][1].end_time

\* the loaded rows from an event's start to its end
EventRows(e) ==
    {measurements[i] : i \in
        {k \in 1..Len(measurements) :
            /\ measurements[k].timestamp >= e.start_time
            /\ measurements[k].timestamp <= e.end_time}}

\* C25: for every emitted event, peak_kp is the largest kp_index among the
\* event's rows, peak_time is the timestamp of the earliest row that has it,
\* and start_time <= peak_time <= end_time.
C25_PeakIsFirstMaximum ==
    \A k \in 1..Len(storms) :
        LET e == storms[k]
            rows == EventRows(e)
            at_peak == {m \in rows : m.kp_index * 10 = e.peak_kp}
        IN  /\ at_peak # {}
            /\ \A m \in rows : m.kp_index * 10 <= e.peak_kp
            /\ \E m \in at_peak : m.timestamp = e.peak_time
            /\ \A m \in at_peak : e.peak_time <= m.timestamp
            /\ e.start_time <= e.peak_time
            /\ e.peak_time <= e.end_time

\* a returned event whose maximum is attained twice, first after the start
C25_Witness ==
    /\ d_pc = "done"
    /\ d_return # None
    /\ \E k \in 1..Len(d_return[1]) :
          LET e == d_return[1][k]
          IN  /\ e.peak_time > e.start_time
              /\ e.peak_time < e.end_time
              /\ \E m \in EventRows(e) : /\ m.timestamp > e.peak_time
                                         /\ m.kp_index * 10 = e.peak_kp

\* C1: every sample falls in exactly one of TP, TN, FP, FN, so the four
\* counts add up to total_predictions, and accuracy is (TP+TN)/total (0 for
\* no samples); Scenario C at threshold 50 gives TP=2, TN=2, FP=0, FN=0 and
\* accuracy 1.
C1_ConfusionPartition ==
    \A t \in DOMAIN sweep :
        LET m == sweep[t]
            n == Len(predictions)
        IN  /\ m.true_positives + m.true_negatives
                 + m.false_positives + m.false_negatives = n
            /\ m.total_predictions = n
            /\ m.accuracy.num * n
                 = (m.true_positives + m.true_negatives) * m.accuracy.den
            /\ (n = 0) => (m.accuracy.num = 0)
            /\ \A i \in 1..n :
                 LET ps == predictions[i] >= t
                     as == actuals[i] >= t
                 IN  /\ (ps /\ as) => m.true_positives >= 1
                     /\ (~ps /\ ~as) => m.true_negatives >= 1
                     /\ (ps /\ ~as) => m.false_positives >= 1
                     /\ (~ps /\ as) => m.false_negatives >= 1
            /\ (/\ predictions = ScenarioC_predictions
                /\ actuals = ScenarioC_actuals
                /\ t = 5000)
               => /\ m.true_positives = 2
                  /\ m.true_negatives = 2
                  /\ m.false_positives = 0
                  /\ m.false_negatives = 0
                  /\ m.accuracy = [num |-> 1, den |-> 1]

C1_Witness ==
    /\ predictions = ScenarioC_predictions
    /\ actuals = ScenarioC_actuals
    /\ 5000 \in DOMAIN sweep
    /\ sweep[5000].true_positives = 2
    /\ sweep[5000].true_negatives = 2

\* C2: for the same prediction array, the predicted-storm count at a lower
\* threshold is at least the count at a higher threshold.
C2_MonotonicClassification ==
    \A t1 \in DOMAIN sweep : \A t2 \in DOMAIN sweep :
        (t1 < t2) =>
            sweep[t1].total_storms_predicted >= sweep[t2].total_storms_predicted

C2_Witness ==
    /\ {1000, 9000} \subseteq DOMAIN sweep
    /\ sweep[1000].total_storms_predicted > sweep[9000].total_storms_predicted
    /\ sweep[9000].total_storms_predicted > 0

\* a ratio of the metrics is a number: a rational with a positive denominator
Defined(x) ==
    x.den > 0

\* C13: calculate_metrics resolves every 0/0 to 0: precision, recall, F1,
\* false-alarm rate and accuracy are always defined, equal their quotient
\* when the denominator is positive (false-alarm rate = FP/(FP+TN)) and
\* are 0 when it is zero.
C13_ZeroOverZeroIsZero ==
    \A t \in DOMAIN sweep :
        LET m == sweep[t]
            tp == m.true_positives
            tn == m.true_negatives
            fp == m.false_positives
            fn == m.false_negatives
            pr == RatAdd(m.precision, m.recall)
        IN  /\ Defined(m.precision) /\ Defined(m.recall)
            /\ Defined(m.f1_score) /\ Defined(m.false_alarm_rate)
            /\ Defined(m.accuracy)
            /\ m.precision = IF tp + fp = 0 THEN Rat(0, 1)
                             ELSE Rat(tp, tp + fp)
            /\ m.recall = IF tp + fn = 0 THEN Rat(0, 1) ELSE Rat(tp, tp + fn)
            /\ m.false_alarm_rate = IF fp + tn = 0 THEN Rat(0, 1)
                                    ELSE Rat(fp, fp + tn)
            /\ m.accuracy = IF Len(predictions) = 0 THEN Rat(0, 1)
                            ELSE Rat(tp + tn, Len(predictions))
            /\ (pr.num = 0) => (m.f1_score = Rat(0, 1))
            /\ (pr.num # 0) =>
                  (RatMul(m.f1_score, pr)
                      = RatMul(Rat(2, 1), RatMul(m.precision, m.recall)))

\* one sample: at the low threshold every ratio but the false-alarm rate is
\* 1 and FP+TN = 0; at the high threshold TP+FP = TP+FN = 0
C13_Witness ==
    /\ predictions = <<5000>>
    /\ actuals = <<5000>>
    /\ {4000, 9000} \subseteq DOMAIN sweep
    /\ sweep[4000].true_positives = 1
    /\ sweep[4000].false_alarm_rate = Rat(0, 1)
    /\ sweep[9000].true_negatives = 1
    /\ sweep[9000].precision = Rat(0, 1)
    /\ sweep[9000].recall = Rat(0, 1)
    /\ sweep[9000].f1_score = Rat(0, 1)

-----------------------------------------------------------------------------
(* Geographic climatology: GeographicClimatologyService                    *)

\* rows of a bounded climatology store
MaxStoreRows ==
    3

\* GeographicRegion: factors as rationals
Regions ==
    [equatorial   |-> [baseline_factor |-> Rat(14, 10),
                       variability_factor |-> Rat(13, 10)],
     mid_latitude |-> [baseline_factor |-> Rat(1, 1),
                       variability_factor |-> Rat(1, 1)],
     auroral      |-> [baseline_factor |-> Rat(85, 100),
                       variability_factor |-> Rat(15, 10)],
     polar        |-> [baseline_factor |-> Rat(7, 10),
                       variability_factor |-> Rat(18, 10)],
     global       |-> [baseline_factor |-> Rat(1, 1),
                       variability_factor |-> Rat(1, 1)]]

RegionCodes ==
    DOMAIN Regions

\* calendar: timestamps of the climatology are hours since 2015-01-01 00:00
EpochYear ==
    2015

IsLeap(y) ==
    /\ y % 4 = 0
    /\ (y % 100 # 0 \/ y % 400 = 0)

YearLen(y) ==
    IF IsLeap(y) THEN 366 ELSE 365

RECURSIVE DaysBefore(_)
DaysBefore(y) ==
    IF y <= EpochYear THEN 0 ELSE DaysBefore(y - 1) + YearLen(y - 1)

\* datetime(y, 1, 1) + timedelta(days=doy - 1, hours=h)
DateTime(y, doy, h) ==
    (DaysBefore(y) + doy - 1) * 24 + h

RECURSIVE YearDayFrom(_, _)
YearDayFrom(days, y) ==
    IF days < YearLen(y) THEN days + 1
    ELSE YearDayFrom(days - YearLen(y), y + 1)

\* timestamp.timetuple().tm_yday
tm_yday(ts) ==
    YearDayFrom(ts \div 24, EpochYear)

\* default train_years = range(2015, 2023)
TrainStart ==
    DateTime(2015, 1, 0)

TrainEnd ==
    DateTime(2022, 365, 23)

\* timestamps and (Kp, TEC) readings of the bounded stores
ClimTimes ==
    {DateTime(2015, 100, 0), DateTime(2015, 100, 1), DateTime(2016, 100, 0),
     DateTime(2015, 2, 0)}

ClimReadings ==
    {<<33, 10>>, <<30, 12>>, <<37, 14>>, <<60, 20>>, <<990, 16>>,
     <<30, 999>>}

ClimStores ==
    {{Measurement(t, f[t][1], f[t][2], None) : t \in DOMAIN f} :
        f \in UNION {[T -> ClimReadings] :
                        T \in {X \in SUBSET ClimTimes :
                                  Cardinality(X) <= MaxStoreRows}}}

\* arguments of the lookups
QueryDates ==
    {DateTime(2024, 100, 0), DateTime(2024, 99, 0), DateTime(2024, 366, 0)}

QueryKps ==
    {35, 50, 90}

\* before_date of delete_old_measurements
DeleteCutoffs ==
    {DateTime(2023, 1, 0)}

\* int(min(9, max(0, kp))) for Kp in tenths
kp_bin_of(kp) ==
    Min(90, Max(0, kp)) \div 10

RatMax0(a) ==
    IF a.num < 0 THEN Rat(0, 1) ELSE a

\* _adjust_tec_for_region
adjust_tec_for_region(global_tec, kp_index, region, gavg) ==
    LET base == RatMul(Rat(global_tec, 1), region.baseline_factor)
        storm_excess == RatMul(RatSub(Rat(global_tec, 1), gavg),
                               region.variability_factor)
        regional_tec == IF kp_index > 50
                        THEN RatAdd(RatMul(gavg, region.baseline_factor),
                                    storm_excess)
                        ELSE base
    IN  RatMax0(regional_tec)

\* "global_tec_values = [...]; np.mean(...) if global_tec_values else 12.74"
global_average(rows) ==
    LET vals == SelectSeq([i \in 1..Len(rows) |-> rows[i].tec_mean],
                          LAMBDA t : t < TecFillValue)
    IN  IF vals = <<>> THEN DefaultGlobalAvgTec
        ELSE Rat(SeqSum(vals), Len(vals))

\* the rows binned into cell key, in order (rows with a fill TEC skipped)
CellRows(rows, key) ==
    SelectSeq(rows, LAMBDA m : /\ m.tec_mean < TecFillValue
                               /\ tm_yday(m.timestamp) = key[1]
                               /\ kp_bin_of(m.kp_index) = key[2])

\* the climatology dict of one region: mean of the adjusted values per bin
region_climatology(rows, region, gavg) ==
    LET keys == {<<tm_yday(rows[i].timestamp), kp_bin_of(rows[i].kp_index)>> :
                    i \in {j \in 1..Len(rows) :
                              rows[j].tec_mean < TecFillValue}}
    IN  [key \in keys |->
            LET cell == CellRows(rows, key)
            IN  RatMean([i \in 1..Len(cell) |->
                            adjust_tec_for_region(cell[i].tec_mean,
                                                  cell[i].kp_index,
                                                  region, gavg)])]

\* build_climatology over a non-empty read: the new service state
build_climatology(rows) ==
    LET gavg == global_average(rows)
    IN  [global_avg_tec |-> gavg,
         regional_climatologies |->
            [code \in RegionCodes |->
                region_climatology(rows, Regions[code], gavg)]]

\* the neighbourhood of the fallback, in the order it is tried
NeighbourOffsets ==
    <<(<<-1, -1>>), (<<-1, 0>>), (<<-1, 1>>), (<<0, -1>>), (<<0, 0>>),
      (<<0, 1>>), (<<1, -1>>), (<<1, 0>>), (<<1, 1>>)>>

NeighbourKey(doy, kp_bin, off) ==
    <<((doy + off[1] - 1) % 365) + 1, Max(0, Min(9, kp_bin + off[2]))>>

get_climatology_forecast_no_last_resort(rc, gavg, region_code, target_date, kp_scenario) ==
    IF region_code \notin DOMAIN rc THEN None
    ELSE LET climatology == rc[region_code]
             doy == tm_yday(target_date)
             kp_bin == kp_bin_of(kp_scenario)
             hits == {k \in 1..Len(NeighbourOffsets) :
                         NeighbourKey(doy, kp_bin, NeighbourOffsets[k])
                             \in DOMAIN climatology}
         IN  IF <<doy, kp_bin>> \in DOMAIN climatology
             THEN Some(climatology[<<doy, kp_bin>>])
             ELSE IF hits # {}
             THEN LET first == CHOOSE k \in hits : \A o \in hits : k <= o
                  IN  Some(climatology[NeighbourKey(doy, kp_bin,
                                           NeighbourOffsets[first])])
             ELSE None

\* get_climatology_forecast: None, or Some(value)
get_climatology_forecast(rc, gavg, region_code, target_date, kp_scenario) ==
    IF region_code \notin DOMAIN rc THEN None
    ELSE LET climatology == rc[region_code]
             doy == tm_yday(target_date)
             kp_bin == kp_bin_of(kp_scenario)
             hits == {k \in 1..Len(NeighbourOffsets) :
                         NeighbourKey(doy, kp_bin, NeighbourOffsets[k])
                             \in DOMAIN climatology}
         IN  IF <<doy, kp_bin>> \in DOMAIN climatology
             THEN Some(climatology[<<doy, kp_bin>>])
             ELSE IF hits # {}
             THEN LET first == CHOOSE k \in hits : \A o \in hits : k <= o
                  IN  Some(climatology[NeighbourKey(doy, kp_bin,
                                           NeighbourOffsets[first])])
             ELSE IF region_code \in RegionCodes
             THEN Some(RatMul(gavg, Regions[region_code].baseline_factor))
             ELSE None

\* build_climatology(session) with the default train_years
BuildClimatology ==
    /\ c_pc \in {"ready", "returned"}
    /\ LET rows == get_measurements_by_time_range(store, TrainStart, TrainEnd)
       IN  IF rows = <<>>
           THEN UNCHANGED <<regional_climatologies, global_avg_tec, c_rows>>
           ELSE /\ \E built \in {build_climatology(rows)} :
                      /\ regional_climatologies' = built.regional_climatologies
                      /\ global_avg_tec' = built.global_avg_tec
                /\ c_rows' = rows
    /\ c_pc' = "ready"
    /\ UNCHANGED <<c_query, c_forecast, store>>
    /\ UNCHANGED metricsVars
    /\ UNCHANGED detectVars
    /\ UNCHANGED backtestVars
    /\ UNCHANGED ensembleVars
    /\ UNCHANGED optimizerVars
    /\ UNCHANGED historyVars
    /\ UNCHANGED impactVars

\* one call get_climatology_forecast(region_code, target_date, kp_scenario)
\* with the arguments c_query
GetClimatologyForecast ==
    /\ c_pc \in {"ready", "returned"}
    /\ c_forecast' = get_climatology_forecast(regional_climatologies,
                         global_avg_tec, c_query.region_code,
                         c_query.target_date, c_query.kp_scenario)
    /\ c_pc' = "returned"
    /\ UNCHANGED <<regional_climatologies, global_avg_tec, c_rows, c_query,
                   store>>
    /\ UNCHANGED metricsVars
    /\ UNCHANGED detectVars
    /\ UNCHANGED backtestVars
    /\ UNCHANGED ensembleVars
    /\ UNCHANGED optimizerVars
    /\ UNCHANGED historyVars
    /\ UNCHANGED impactVars

\* HistoricalDataRepository.delete_old_measurements(before_date)
DeleteOldMeasurements ==
    /\ c_pc \in {"ready", "returned"}
    /\ \E before_date \in DeleteCutoffs :
          /\ \E m \in store : m.timestamp < before_date
          /\ store' = {m \in store : ~(m.timestamp < before_date)}
    /\ UNCHANGED climVars
    /\ UNCHANGED metricsVars
    /\ UNCHANGED detectVars
    /\ UNCHANGED backtestVars
    /\ UNCHANGED ensembleVars
    /\ UNCHANGED optimizerVars
    /\ UNCHANGED historyVars
    /\ UNCHANGED impactVars

InitClim ==
    /\ MetricsIdle
    /\ DetectIdle
    /\ BacktestIdle
    /\ store \in ClimStores
    /\ regional_climatologies = EmptyMap
    /\ global_avg_tec = DefaultGlobalAvgTec
    /\ c_rows = <<>>
    /\ \E region_code \in RegionCodes, target_date \in QueryDates,
          kp_scenario \in QueryKps :
          c_query = [region_code |-> region_code,
                     target_date |-> target_date,
                     kp_scenario |-> kp_scenario]
    /\ c_forecast = None
    /\ c_pc = "ready"
    /\ EnsembleIdle
    /\ OptimizerIdle
    /\ HistoryIdle
    /\ ImpactIdle

NextClim ==
    \/ BuildClimatology
    \/ GetClimatologyForecast
    \/ DeleteOldMeasurements

SpecClim ==
    InitClim /\ [][NextClim]_vars

\* ---- properties of the climatology ----

\* RegionalEnsembleService._adjust_for_region: the same steps with the
\* literal "global_avg = 12.74"
adjust_for_region(global_tec, kp, region) ==
    LET global_avg == Rat(1274, 100)
        base == RatMul(Rat(global_tec, 1), region.baseline_factor)
        storm_excess == RatMul(RatSub(Rat(global_tec, 1), global_avg),
                               region.variability_factor)
        regional_tec == IF kp > 50
                        THEN RatAdd(RatMul(global_avg, region.baseline_factor),
                                    storm_excess)
                        ELSE base
    IN  RatMax0(regional_tec)

\* C27: in every state of the climatology service, the adjustment used when
\* building the climatology and the adjustment used for live regional
\* forecasts give the same value for every row the climatology was built
\* from and every region.
C27_AdjustmentsAgree ==
    \A i \in 1..Len(c_rows), code \in RegionCodes :
        adjust_tec_for_region(c_rows[i].tec_mean, c_rows[i].kp_index,
                              Regions[code], global_avg_tec)
            = adjust_for_region(c_rows[i].tec_mean, c_rows[i].kp_index,
                                Regions[code])

\* C6 as stated: for every defined region and in-range (day, activity) the
\* lookup returns a number, never None, in every reachable state of the
\* service.
C6_Original ==
    (c_pc = "returned") => (c_forecast # None)

\* C6 (amended): once a build has read at least one Measurement, the lookup
\* returns a number (never None) for every defined region and in-range
\* (day, activity), also after a later build over an empty store; before
\* any such build it returns None for every region.
C6_LookupTotalOnceBuilt ==
    (c_pc = "returned") =>
        IF c_rows # <<>>
        THEN /\ c_forecast # None
             /\ c_forecast[1].den > 0
             /\ c_forecast[1].num >= 0
        ELSE c_forecast = None

\* a lookup that falls through to the regional baseline after a build whose
\* rows all carried a fill TEC
C6_Witness ==
    /\ c_pc = "returned"
    /\ c_rows # <<>>
    /\ regional_climatologies[c_query.region_code] = EmptyMap
    /\ c_forecast = Some(RatMul(global_avg_tec,
                           Regions[c_query.region_code].baseline_factor))

\* days a and b are at most one day apart (the year wraps around)
WithinOneDay(a, b) ==
    \/ Abs(a - b) <= 1
    \/ (Min(a, b) = 1 /\ Max(a, b) \in {365, 366})

\* C7 as stated: the lookup returns (1) the arithmetic mean of the values
\* binned into the exact cell when it is populated ([10,12,14] in cell
\* (100,3) give 12.0), (2) otherwise the value of a populated cell within
\* +-1 day and +-1 bin, (3) otherwise global_mean x baseline_factor.
C7_LookupPriority ==
    (c_pc = "returned" /\ c_query.region_code \in DOMAIN regional_climatologies)
    =>
    LET region == Regions[c_query.region_code]
        climatology == regional_climatologies[c_query.region_code]
        doy == tm_yday(c_query.target_date)
        kp_bin == kp_bin_of(c_query.kp_scenario)
        cell == CellRows(c_rows, <<doy, kp_bin>>)
        near == {key \in DOMAIN climatology :
                    /\ WithinOneDay(key[1], doy)
                    /\ Abs(key[2] - kp_bin) <= 1}
    IN  /\ c_forecast # None
        /\ IF <<doy, kp_bin>> \in DOMAIN climatology
           THEN /\ cell # <<>>
                /\ c_forecast[1] =
                      RatMean([i \in 1..Len(cell) |->
                          adjust_tec_for_region(cell[i].tec_mean,
                              cell[i].kp_index, region, global_avg_tec)])
                /\ (/\ c_query.region_code = "global"
                    /\ doy = 100
                    /\ kp_bin = 3
                    /\ Len(cell) = 3
                    /\ {cell[i].tec_mean : i \in 1..3} = {10, 12, 14})
                   => (c_forecast[1] = Rat(12, 1))
           ELSE IF near # {}
           THEN \E key \in near : c_forecast[1] = climatology[key]
           ELSE c_forecast[1] = RatMul(global_avg_tec, region.baseline_factor)

\* the rows that are not sentinels (activity index <= 9)
NonSentinel(rows) ==
    SelectSeq(rows, LAMBDA m : m.kp_index <= 90)

\* C10 as stated: no Measurement with activity index > 9 enters a
\* StormEvent (peak and mean <= 9, no sentinel counted in the duration) or
\* contributes to a climatology cell mean or to the global mean.
C10_NoSentinelInStatistics ==
    /\ \A k \in 1..Len(storms) :
          /\ storms[k].peak_kp <= 900
          /\ storms[k].avg_kp <= 900
          /\ \A i \in 1..Len(measurements) :
                (/\ measurements[i].timestamp >= storms[k].start_time
                 /\ measurements[i].timestamp <= storms[k].end_time)
                => measurements[i].kp_index <= 90
    /\ (c_rows # <<>>) =>
          /\ global_avg_tec = global_average(NonSentinel(c_rows))
          /\ \A code \in RegionCodes :
                regional_climatologies[code] =
                    region_climatology(NonSentinel(c_rows), Regions[code],
                                       global_avg_tec)

-----------------------------------------------------------------------------
(* Windowed backtest runner: BacktestingService.run_backtest               *)
(* Timestamps are half hours; raw probabilities (the Oracle's output and   *)
(* the stored storm_probability) are thousandths of a percent, the rounded *)
(* fields of a sample are hundredths.                                      *)

\* half hours per hour
Hour ==
    2

\* hours by which the end date of the longest bounded run exceeds
\* start_date + 24 h
MaxExtraHours ==
    2

\* timedelta(hours=24): data_start, and the forecast horizon
HorizonHours ==
    24

\* "if len(all_measurements) < 48"
MinRawRows ==
    48

\* "if len(window_data) >= 24" and measurements[-24:]
WindowRows ==
    24

\* lookback_start = current_time - timedelta(hours=26)
LookbackHours ==
    26

\* tolerance = timedelta(hours=2)
ToleranceHours ==
    2

\* what one Oracle invocation can do: raise (None), or return
\* storm_binary * 100 (thousandths of a percent)
OracleOutcomes ==
    {None, Some(20000), Some(39996), Some(80000)}

\* storm_probability columns of the bounded stores, by timestamp
GroundTruthPatterns ==
    {"high", "mixed", "late", "missing"}

GroundTruth(pattern, ts) ==
    CASE pattern = "high" -> Some(80000)
      [] pattern = "mixed" -> IF ts % (2 * Hour) = 0 THEN Some(60004)
                              ELSE Some(20000)
      [] pattern = "late" -> IF ts < (HorizonHours + 1) * Hour THEN None
                             ELSE Some(80000)
      [] pattern = "missing" -> None

\* the bounded stores: a grid of rows every step half hours around the
\* start date 0, minus a gap of missing rows
BacktestGaps ==
    {{}, (-48)..(-34), 45..60, {(HorizonHours + 1) * Hour}}

BacktestStore(step, gap, pattern) ==
    {Measurement(ts, 30, 10, GroundTruth(pattern, ts)) :
        ts \in {t \in ((-52)..((HorizonHours + MaxExtraHours + 2) * Hour))
                        \ gap :
                   t % step = 0}}

\* every gap with the "mixed" ground truth, every ground truth without a
\* gap, and the one-row gap with the "late" ground truth
BacktestStores ==
    {BacktestStore(step, gap, "mixed") :
        step \in {1, Hour}, gap \in BacktestGaps}
    \cup {BacktestStore(step, {}, pattern) :
        step \in {1, Hour}, pattern \in GroundTruthPatterns}
    \cup {BacktestStore(1, {(HorizonHours + 1) * Hour}, "late")}

\* end dates of the bounded calls (start_date = 0): before the start, the
\* start itself, and more than a day later
BacktestEndDates ==
    {-Hour, 0, (HorizonHours + MaxExtraHours) * Hour}

\* sample_interval_hours is any int: the request model and run_backtest
\* accept a zero and a negative stride
BacktestStrides ==
    {-1, 0, 1, 24}

\* hours below start_date to which a run with a negative stride is followed
MaxRewindHours ==
    2

\* samples of one tick to which a run with stride 0 is followed
MaxRevisits ==
    2

\* rows with lookback_start <= timestamp < lookback_end, ascending
window_data(rows, t) ==
    SelectSeq(rows, LAMBDA m : /\ m.timestamp >= t - LookbackHours * Hour
                               /\ m.timestamp < t + Hour)

prepare_input_features_first_rows(window) ==
    SubSeq(window, 1, WindowRows)

\* prepare_input_features: the last 24 rows of the window
prepare_input_features(window) ==
    SubSeq(window, Len(window) - WindowRows + 1, Len(window))

closest_measurement_reads_store(rows, actual_time) ==
    LET now == get_measurements_by_time_range(store,
                   actual_time - ToleranceHours * Hour,
                   actual_time + ToleranceHours * Hour)
        within == {i \in 1..Len(now) :
                      Abs(now[i].timestamp - actual_time)
                          < ToleranceHours * Hour}
    IN  IF within = {} THEN None
        ELSE LET best == CHOOSE i \in within :
                            /\ \A j \in within :
                                  Abs(now[i].timestamp - actual_time)
                                      <= Abs(now[j].timestamp - actual_time)
                            /\ \A j \in within :
                                  (Abs(now[j].timestamp - actual_time)
                                      = Abs(now[i].timestamp - actual_time))
                                  => i <= j
             IN  Some(now[best])

closest_measurement_tolerance_inclusive(rows, actual_time) ==
    LET within == {i \in 1..Len(rows) :
                      Abs(rows[i].timestamp - actual_time)
                          <= ToleranceHours * Hour}
    IN  IF within = {} THEN None
        ELSE LET best == CHOOSE i \in within :
                            /\ \A j \in within :
                                  Abs(rows[i].timestamp - actual_time)
                                      <= Abs(rows[j].timestamp - actual_time)
                            /\ \A j \in within :
                                  (Abs(rows[j].timestamp - actual_time)
                                      = Abs(rows[i].timestamp - actual_time))
                                  => i <= j
             IN  Some(rows[best])

\* the for loop over all_measurements that keeps the first row strictly
\* closer than every earlier one, within the tolerance
closest_measurement(rows, actual_time) ==
    LET within == {i \in 1..Len(rows) :
                      Abs(rows[i].timestamp - actual_time)
                          < ToleranceHours * Hour}
    IN  IF within = {} THEN None
        ELSE LET best == CHOOSE i \in within :
                            /\ \A j \in within :
                                  Abs(rows[i].timestamp - actual_time)
                                      <= Abs(rows[j].timestamp - actual_time)
                            /\ \A j \in within :
                                  (Abs(rows[j].timestamp - actual_time)
                                      = Abs(rows[i].timestamp - actual_time))
                                  => i <= j
             IN  Some(rows[best])

\* the dictionary appended to results (threshold in hundredths)
prediction_sample(t, predicted_prob, actual_prob, storm_threshold) ==
    [timestamp |-> t,
     prediction_timestamp |-> t + HorizonHours * Hour,
     predicted_probability |-> Round2(predicted_prob, 1000),
     actual_probability |-> Round2(actual_prob, 1000),
     error |-> Round2(predicted_prob - actual_prob, 1000),
     absolute_error |-> Round2(Abs(predicted_prob - actual_prob), 1000),
     predicted_storm |-> predicted_prob >= storm_threshold * 10,
     actual_storm |-> actual_prob >= storm_threshold * 10,
     correct_classification |->
        (predicted_prob >= storm_threshold * 10)
            = (actual_prob >= storm_threshold * 10)]

backtest_tick_failure_clears(rows, res, t, oracle, storm_threshold) ==
    LET window == window_data(rows, t)
        actual == closest_measurement(rows, t + HorizonHours * Hour)
    IN  IF Len(window) < WindowRows THEN res
        ELSE IF oracle = None THEN <<>>
        ELSE IF actual # None /\ actual[1].storm_probability # None
        THEN Append(res, prediction_sample(t, oracle[1],
                             actual[1].storm_probability[1], storm_threshold))
        ELSE res

\* body of the while loop for tick t: the results list after the tick
backtest_tick(rows, res, t, oracle, storm_threshold) ==
    LET window == window_data(rows, t)
        actual == closest_measurement(rows, t + HorizonHours * Hour)
    IN  IF Len(window) < WindowRows THEN res
        ELSE IF oracle = None THEN res
        ELSE IF actual # None /\ actual[1].storm_probability # None
        THEN Append(res, prediction_sample(t, oracle[1],
                             actual[1].storm_probability[1], storm_threshold))
        ELSE res

\* what the body of the while loop does at tick t: whether model.predict is
\* called and with which rows, how the call ends, and whether a sample is
\* appended
tick_record(rows, res, t, oracle, storm_threshold) ==
    LET window == window_data(rows, t)
        invoked == Len(window) >= WindowRows
    IN  [current_time |-> t,
         invoked |-> invoked,
         input_features |-> IF invoked THEN prepare_input_features(window)
                            ELSE <<>>,
         outcome |-> IF ~invoked THEN "not_invoked"
                     ELSE IF oracle = None THEN "raised"
                     ELSE "returned",
         emitted |-> Len(backtest_tick(rows, res, t, oracle, storm_threshold))
                        > Len(res)]

\* whether tick t invokes the Oracle and can emit a sample
TickCanSample(rows, t) ==
    /\ Len(window_data(rows, t)) >= WindowRows
    /\ closest_measurement(rows, t + HorizonHours * Hour) # None
    /\ closest_measurement(rows, t + HorizonHours * Hour)[1].storm_probability
          # None

backtest_finish_returns_empty(res, args) ==
    LET preds == [i \in 1..Len(res) |-> res[i].predicted_probability]
        acts == [i \in 1..Len(res) |-> res[i].actual_probability]
    IN  [status |-> "returned",
         error |-> "",
         result |->
            [metadata |-> [start_date |-> args.start_date,
                           end_date |-> args.end_date,
                           storm_threshold |-> args.storm_threshold,
                           sample_interval_hours |->
                               args.sample_interval_hours,
                           total_predictions |-> Len(res)],
             metrics |-> calculate_metrics(preds, acts,
                                           args.storm_threshold),
             predictions |-> res,
             analysis |->
                [missed_storms |->
                    SelectSeq(res, LAMBDA r : r.actual_storm
                                              /\ ~r.predicted_storm),
                 false_alarms |->
                    SelectSeq(res, LAMBDA r : r.predicted_storm
                                              /\ ~r.actual_storm),
                 correct_predictions_count |->
                    Len(SelectSeq(res,
                            LAMBDA r : r.correct_classification))]]]

\* run_backtest after the loop: raise on no sample, else metrics, analysis
\* and the returned dictionary (best/worst lists and the summary are
\* projections of predictions and are left out)
backtest_finish(res, args) ==
    IF Len(res) = 0
    THEN [status |-> "raised",
          error |-> "No valid predictions generated",
          result |-> NoResult]
    ELSE LET preds == [i \in 1..Len(res) |-> res[i].predicted_probability]
             acts == [i \in 1..Len(res) |-> res[i].actual_probability]
         IN  [status |-> "returned",
              error |-> "",
              result |->
                 [metadata |-> [start_date |-> args.start_date,
                                end_date |-> args.end_date,
                                storm_threshold |-> args.storm_threshold,
                                sample_interval_hours |->
                                    args.sample_interval_hours,
                                total_predictions |-> Len(res)],
                  metrics |-> calculate_metrics(preds, acts,
                                                args.storm_threshold),
                  predictions |-> res,
                  analysis |->
                     [missed_storms |->
                         SelectSeq(res, LAMBDA r : r.actual_storm
                                                   /\ ~r.predicted_storm),
                      false_alarms |->
                         SelectSeq(res, LAMBDA r : r.predicted_storm
                                                   /\ ~r.actual_storm),
                      correct_predictions_count |->
                         Len(SelectSeq(res,
                                 LAMBDA r : r.correct_classification))]]]

\* run_backtest up to the while loop: one read of the store from
\* start_date - 24 h to end_date, and the 48-row check
BacktestRead ==
    /\ b_pc = "call"
    /\ LET rows == get_measurements_by_time_range(store,
                       b_args.start_date - HorizonHours * Hour,
                       b_args.end_date)
       IN  /\ all_measurements' = rows
           /\ IF Len(rows) < MinRawRows
              THEN /\ b_pc' = "done"
                   /\ b_status' = "raised"
                   /\ b_error' = "Insufficient data: need at least 48 hours"
              ELSE /\ b_pc' = "loop"
                   /\ UNCHANGED <<b_status, b_error>>
    /\ current_time' = b_args.start_date
    /\ results' = <<>>
    /\ UNCHANGED <<b_args, last_tick, b_result, store>>
    /\ UNCHANGED metricsVars
    /\ UNCHANGED detectVars
    /\ UNCHANGED climVars
    /\ UNCHANGED ensembleVars
    /\ UNCHANGED optimizerVars
    /\ UNCHANGED historyVars
    /\ UNCHANGED impactVars

\* one iteration of "while current_time <= end_date"
BacktestTick ==
    /\ b_pc = "loop"
    /\ current_time <= b_args.end_date
    /\ current_time >= b_args.start_date - MaxRewindHours * Hour
    /\ Len(SelectSeq(results, LAMBDA r : r.timestamp = current_time))
          <= MaxRevisits
    /\ \E oracle \in OracleOutcomes :
          /\ results' = backtest_tick(all_measurements, results,
                                      current_time, oracle,
                                      b_args.storm_threshold)
          /\ last_tick' = tick_record(all_measurements, results,
                                      current_time, oracle,
                                      b_args.storm_threshold)
    /\ current_time' = current_time + b_args.sample_interval_hours * Hour
    /\ UNCHANGED <<b_args, b_pc, all_measurements, b_status, b_error,
                   b_result, store>>
    /\ UNCHANGED metricsVars
    /\ UNCHANGED detectVars
    /\ UNCHANGED climVars
    /\ UNCHANGED ensembleVars
    /\ UNCHANGED optimizerVars
    /\ UNCHANGED historyVars
    /\ UNCHANGED impactVars

\* the loop has ended: raise or return
BacktestFinish ==
    /\ b_pc = "loop"
    /\ current_time > b_args.end_date
    /\ \E out \in {backtest_finish(results, b_args)} :
          /\ b_status' = out.status
          /\ b_error' = out.error
          /\ b_result' = out.result
    /\ b_pc' = "done"
    /\ UNCHANGED <<b_args, all_measurements, current_time, results,
                   last_tick, store>>
    /\ UNCHANGED metricsVars
    /\ UNCHANGED detectVars
    /\ UNCHANGED climVars
    /\ UNCHANGED ensembleVars
    /\ UNCHANGED optimizerVars
    /\ UNCHANGED historyVars
    /\ UNCHANGED impactVars

InitBacktest ==
    /\ MetricsIdle
    /\ DetectIdle
    /\ ClimIdle
    /\ store \in BacktestStores
    /\ \E e \in BacktestEndDates, stride \in BacktestStrides :
          b_args = [start_date |-> 0, end_date |-> e,
                    storm_threshold |-> 4000,
                    sample_interval_hours |-> stride]
    /\ b_pc = "call"
    /\ BacktestLocalsInit
    /\ EnsembleIdle
    /\ OptimizerIdle
    /\ HistoryIdle
    /\ ImpactIdle

NextBacktest ==
    \/ BacktestRead
    \/ BacktestTick
    \/ BacktestFinish

SpecBacktest ==
    InitBacktest /\ [][NextBacktest]_vars

\* ---- properties of the backtest runner ----

\* C8: run_backtest never returns an empty success: it raises with a
\* reason, or returns at least one prediction with metadata.total_predictions
\* = metrics.total_predictions = len(predictions); a call with start >= end
\* never returns a result.
C8_NoEmptySuccess ==
    /\ (b_pc = "done") => (b_status \in {"raised", "returned"})
    /\ (b_status = "raised") => (b_error # "")
    /\ (b_status = "returned") =>
          /\ Len(b_result.predictions) >= 1
          /\ b_result.metadata.total_predictions = Len(b_result.predictions)
          /\ b_result.metrics.total_predictions = Len(b_result.predictions)
    /\ (b_args.start_date >= b_args.end_date) => (b_status # "returned")

\* a run that skipped ticks and returned its samples
C8_Witness ==
    /\ b_status = "returned"
    /\ Len(b_result.predictions) >= 2
    /\ b_result.metadata.total_predictions = Len(b_result.predictions)

\* a call with start = end that reached the loop and raised
C8_WitnessStartEqualsEnd ==
    /\ b_args.start_date = b_args.end_date
    /\ b_status = "raised"
    /\ b_error = "No valid predictions generated"

\* the loaded rows with timestamp in [t - 26 h, t + 1 h)
InLookback(t) ==
    {all_measurements[i] : i \in
        {j \in 1..Len(all_measurements) :
            /\ all_measurements[j].timestamp >= t - LookbackHours * Hour
            /\ all_measurements[j].timestamp < t + Hour}}

\* C16: at every tick t the Oracle is invoked only with exactly 24 rows, the
\* 24 latest in ascending time order among the loaded rows with timestamp
\* in [t - 26 h, t + 1 h); when fewer than 24 rows lie in that interval the
\* Oracle is not invoked and no sample is emitted for t.
C16_OracleWindow ==
    (last_tick.outcome # "none") =>
        LET t == last_tick.current_time
            x == last_tick.input_features
            in_range == InLookback(t)
            passed == {x[k] : k \in 1..Len(x)}
        IN  /\ last_tick.invoked =>
                  /\ Len(x) = WindowRows
                  /\ \A k \in 1..(Len(x) - 1) :
                        x[k].timestamp < x[k + 1].timestamp
                  /\ passed \subseteq in_range
                  /\ \A m \in in_range \ passed :
                        m.timestamp < x[1].timestamp
            /\ (Cardinality(in_range) < WindowRows) =>
                  /\ ~last_tick.invoked
                  /\ ~last_tick.emitted
                  /\ \A k \in 1..Len(results) : results[k].timestamp # t

\* a tick with more than 24 rows in the interval that invoked the Oracle and
\* emitted a sample
C16_Witness ==
    /\ last_tick.invoked
    /\ last_tick.emitted
    /\ Cardinality(InLookback(last_tick.current_time)) > WindowRows
    /\ Len(last_tick.input_features) = WindowRows

\* a tick with fewer than 24 rows in the interval, after a tick that sampled
C16_WitnessSkipped ==
    /\ last_tick.outcome = "not_invoked"
    /\ Cardinality(InLookback(last_tick.current_time)) < WindowRows
    /\ Len(results) >= 1

\* the loaded rows strictly less than 2 h from actual_time
WithinTolerance(actual_time) ==
    {all_measurements[i] : i \in
        {j \in 1..Len(all_measurements) :
            Abs(all_measurements[j].timestamp - actual_time)
                < ToleranceHours * Hour}}

\* the rows of near than which no row of near is strictly closer
Closest(near, actual_time) ==
    {m \in near : \A n \in near :
        Abs(n.timestamp - actual_time) >= Abs(m.timestamp - actual_time)}

\* C17: every sample emitted for tick t takes its actual_probability from a
\* loaded row strictly less than 2 h from t + 24 h such that no loaded row
\* is strictly closer; when no row lies within the tolerance, or the matched
\* row (the earliest of the closest) has no storm_probability, the tick
\* emits no sample.
C17_ActualWithinTolerance ==
    /\ \A k \in 1..Len(results) :
          LET actual_time == results[k].timestamp + HorizonHours * Hour
              near == WithinTolerance(actual_time)
          IN  /\ results[k].prediction_timestamp = actual_time
              /\ \E m \in Closest(near, actual_time) :
                    /\ m.storm_probability # None
                    /\ results[k].actual_probability
                          = Round2(m.storm_probability[1], 1000)
    /\ (last_tick.outcome # "none") =>
          LET t == last_tick.current_time
              actual_time == t + HorizonHours * Hour
              near == WithinTolerance(actual_time)
              closest == Closest(near, actual_time)
              no_truth == \E m \in closest :
                             /\ \A n \in closest :
                                   m.timestamp <= n.timestamp
                             /\ m.storm_probability = None
          IN  (near = {} \/ no_truth) =>
                  /\ ~last_tick.emitted
                  /\ \A k \in 1..Len(results) : results[k].timestamp # t

\* a sample whose actual value comes from a row that is not at t + 24 h
C17_Witness ==
    /\ last_tick.emitted
    /\ \A m \in WithinTolerance(last_tick.current_time
                                    + HorizonHours * Hour) :
          m.timestamp # last_tick.current_time + HorizonHours * Hour
    /\ results[Len(results)].timestamp = last_tick.current_time

\* the Oracle returned and rows exist around t + 24 h, none within 2 h
C17_WitnessOutsideTolerance ==
    /\ last_tick.outcome = "returned"
    /\ ~last_tick.emitted
    /\ WithinTolerance(last_tick.current_time + HorizonHours * Hour) = {}
    /\ \E i \in 1..Len(all_measurements) :
          Abs(all_measurements[i].timestamp
                  - (last_tick.current_time + HorizonHours * Hour))
              = ToleranceHours * Hour

\* two rows equally close, the earlier one without ground truth: no sample
C17_WitnessMatchedWithoutTruth ==
    /\ last_tick.outcome = "returned"
    /\ ~last_tick.emitted
    /\ \E m \in Closest(WithinTolerance(last_tick.current_time
                                            + HorizonHours * Hour),
                          last_tick.current_time + HorizonHours * Hour) :
          m.storm_probability # None

\* how a finished run_backtest call ended, against what it loaded and sampled
RunFailsOnlyWithoutData ==
    /\ (b_status = "raised") =>
          \/ /\ b_error = "Insufficient data: need at least 48 hours"
             /\ Len(all_measurements) < MinRawRows
             /\ last_tick = NoTick
          \/ /\ b_error = "No valid predictions generated"
             /\ Len(all_measurements) >= MinRawRows
             /\ Len(results) = 0
    /\ (b_pc # "call" /\ Len(all_measurements) < MinRawRows) =>
          /\ b_status = "raised"
          /\ last_tick = NoTick
    /\ (b_pc = "done" /\ Len(all_measurements) >= MinRawRows) =>
          /\ current_time > b_args.end_date
          /\ (Len(results) >= 1) =>
                /\ b_status = "returned"
                /\ b_result.predictions = results

\* a step of the loop at which the Oracle raised
OracleFailureStep ==
    /\ b_pc = "loop"
    /\ b_pc' = "loop"
    /\ last_tick'.outcome = "raised"
    /\ last_tick'.current_time = current_time

SpecBacktestFair ==
    SpecBacktest /\ WF_vars(BacktestTick) /\ WF_vars(BacktestFinish)

\* C19: run_backtest visits the ticks start, start + S, ... <= end in
\* strictly increasing order, each at most once (every iteration of the
\* loop moves current_time forward), and terminates after finitely many
\* ticks, for every integer stride S.
C19_TicksAscendAndTerminate ==
    /\ []((last_tick.outcome # "none") =>
              /\ last_tick.current_time >= b_args.start_date
              /\ last_tick.current_time <= b_args.end_date)
    /\ [][(b_pc = "loop" /\ b_pc' = "loop") =>
              current_time' > current_time]_vars
    /\ ((b_pc = "loop") ~> (b_pc = "done"))

\* C29: in every returned result the per-sample booleans agree with the
\* metrics: len(analysis.false_alarms) = metrics.false_positives,
\* len(analysis.missed_storms) = metrics.false_negatives, and
\* analysis.correct_predictions_count = true_positives + true_negatives.
C29_AnalysisMatchesMetrics ==
    (b_status = "returned") =>
        LET samples == b_result.predictions
            m == b_result.metrics
        IN  /\ Cardinality({k \in 1..Len(samples) :
                               /\ samples[k].predicted_storm
                               /\ ~samples[k].actual_storm})
                  = m.false_positives
            /\ Len(b_result.analysis.false_alarms) = m.false_positives
            /\ Cardinality({k \in 1..Len(samples) :
                               /\ samples[k].actual_storm
                               /\ ~samples[k].predicted_storm})
                  = m.false_negatives
            /\ Len(b_result.analysis.missed_storms) = m.false_negatives
            /\ b_result.analysis.correct_predictions_count
                  = m.true_positives + m.true_negatives

\* ---- a run in flight while another session writes the store ----

\* timestamps the writer inserts at or replaces (store units: hours for the
\* detector's store, half hours for the backtest's)
RefreshTimes ==
    {3, 8, HorizonHours * Hour}

\* delete_old_measurements(before_date)
delete_old_measurements(rows, before_date) ==
    {m \in rows : ~(m.timestamp < before_date)}

\* create_measurement: a new row is added and committed; the timestamp
\* column is unique, so a row written at a timestamp that is taken stands
\* for the stored row having been changed
create_measurement(rows, m) ==
    {r \in rows : r.timestamp # m.timestamp} \cup {m}

\* another session commits a write while a run is at any position
LiveRefresh ==
    /\ \/ \E ts \in RefreshTimes :
             /\ \A r \in store : r.timestamp # ts
             /\ store' = create_measurement(store,
                             Measurement(ts, 90, 10, Some(99000)))
       \/ \E ts \in RefreshTimes :
             /\ \E r \in store : r.timestamp = ts
             /\ store' = create_measurement(store,
                             Measurement(ts, 90, 10, Some(99000)))
       \/ store' = delete_old_measurements(store, 1)
    /\ store' # store
    /\ UNCHANGED detectVars
    /\ UNCHANGED metricsVars
    /\ UNCHANGED climVars
    /\ UNCHANGED backtestVars
    /\ UNCHANGED ensembleVars
    /\ UNCHANGED optimizerVars
    /\ UNCHANGED historyVars
    /\ UNCHANGED impactVars

\* a backtest over two ticks, or a detection over Scenario A, about to start
InitSnapshot ==
    \/ /\ InitBacktest
       /\ store = BacktestStore(Hour, {}, "mixed")
       /\ b_args.end_date = (HorizonHours + MaxExtraHours) * Hour
       /\ b_args.sample_interval_hours = HorizonHours
    \/ /\ InitDetect
       /\ store = HourlyStore(ScenarioA_kp)
       /\ d_args = [start_date |-> 0, end_date |-> 10, kp_threshold |-> 50,
                    min_duration_hours |-> 2]

NextSnapshot ==
    \/ NextBacktest
    \/ NextDetect
    \/ LiveRefresh

SpecSnapshot ==
    InitSnapshot /\ [][NextSnapshot]_vars

\* loaded holds exactly the rows of rows with timestamp in [a, b], in
\* ascending time order
IsSnapshotOf(loaded, rows, a, b) ==
    /\ {loaded[i] : i \in 1..Len(loaded)}
          = {m \in rows : m.timestamp >= a /\ m.timestamp <= b}
    /\ \A i \in 1..(Len(loaded) - 1) :
          loaded[i].timestamp < loaded[i + 1].timestamp

\* C24: a backtest or detection reads the store once, at its first step, and
\* works on that snapshot: the loaded rows never change afterwards, no step
\* of a run writes the store, a write by another session changes nothing of
\* a run, and every sample, tick and event is computed from the loaded rows
\* whatever the store holds by then.
C24_SnapshotIsolation ==
    /\ [][/\ (b_pc = "call" /\ b_pc' # "call") =>
                IsSnapshotOf(all_measurements', store,
                             b_args.start_date - HorizonHours * Hour,
                             b_args.end_date)
          /\ (b_pc \notin {"idle", "call"}) =>
                all_measurements' = all_measurements
          /\ (d_pc = "call" /\ d_pc' # "call") =>
                IsSnapshotOf(measurements', store, d_args.start_date,
                             d_args.end_date)
          /\ (d_pc \notin {"idle", "call"}) => measurements' = measurements
          /\ (store' # store) =>
                /\ backtestVars' = backtestVars
                /\ detectVars' = detectVars
          /\ (b_pc = "loop" /\ current_time' # current_time) =>
                \E oracle \in OracleOutcomes :
                   /\ results' = backtest_tick(all_measurements, results,
                                     current_time, oracle,
                                     b_args.storm_threshold)
                   /\ last_tick' = tick_record(all_measurements, results,
                                       current_time, oracle,
                                       b_args.storm_threshold)
          /\ (b_pc = "loop" /\ b_pc' = "done") =>
                b_result' = backtest_finish(results, b_args).result
          /\ (d_pc = "loop" /\ d_idx' # d_idx) =>
                Locals' = detect_step(Locals, measurements[d_idx],
                              d_args.kp_threshold,
                              d_args.min_duration_hours).loc
         ]_vars
    /\ [](\A k \in 1..Len(storms) :
             \E i \in 1..Len(measurements) :
                \E j \in i..Len(measurements) :
                   storms[k] = create_storm_summary(measurements[i],
                                   SubSeq(measurements, i, j)))
    /\ [](\A k \in 1..Len(results) :
             \E i \in 1..Len(all_measurements) :
                /\ all_measurements[i].storm_probability # None
                /\ results[k].actual_probability
                      = Round2(all_measurements[i].storm_probability[1],
                               1000))
    /\ [](\A k \in 1..Len(last_tick.input_features) :
             \E i \in 1..Len(all_measurements) :
                last_tick.input_features[k] = all_measurements[i])

\* a backtest returned a sample whose ground truth is the row loaded at the
\* read, after that row was changed in the store
C24_Witness ==
    /\ b_status = "returned"
    /\ Len(b_result.predictions) >= 1
    /\ b_result.predictions[1].timestamp = 0
    /\ b_result.predictions[1].actual_probability = 6000
    /\ \E r \in store : /\ r.timestamp = HorizonHours * Hour
                        /\ r.storm_probability = Some(99000)
    /\ \E i \in 1..Len(all_measurements) :
          /\ all_measurements[i].timestamp = HorizonHours * Hour
          /\ all_measurements[i].storm_probability = Some(60004)

\* a detection returned the Scenario A event with peak 8, after the peak row
\* was changed to Kp 9 in the store and the first rows were deleted
C24_WitnessDetect ==
    /\ d_pc = "done"
    /\ d_calls = 1
    /\ d_return # None
    /\ Len(d_return[1]) = 1
    /\ d_return[1][1].peak_kp = 800
    /\ \E r \in store : r.timestamp = 3 /\ r.kp_index = 90
    /\ \A r \in store : r.timestamp >= 1
    /\ Len(measurements) = 7

-----------------------------------------------------------------------------
(* Ensemble blender: EnsembleStormPredictor                                *)
(* Weights are integers in millionths (0.7 = 700000); forecast values are  *)
(* exact rationals or NaN; a value rounded with round(x, 2) is a rational  *)
(* with denominator dividing 100.                                          *)

WeightUnit ==
    1000000

\* the 24 forecast hours of predict_storm: range(1, 25)
ForecastHours ==
    24

\* weights of the constructor calls: the defaults, a sum just outside the
\* tolerance of np.isclose, and weights outside [0, 1]
WeightValues ==
    {-200000, 0, 300000, 300011, 500000, 700000, 1000000, 1200000}

\* a point of historical_data (kp_index may be missing from the dict)
DataPoint(ts, kp) ==
    [timestamp |-> ts, kp_index |-> kp]

\* historical_data of the predict_storm calls
Histories ==
    {<<>>,
     <<DataPoint(DateTime(2024, 100, 11), Some(20)),
       DataPoint(DateTime(2024, 100, 12), Some(35))>>,
     <<DataPoint(DateTime(2024, 365, 12), None)>>,
     <<DataPoint(DateTime(2024, 100, 12), Some(990))>>}

\* outcome of the Oracle's inference (self.model.predict and the extraction
\* of its outputs): None when it raises, else the 24 denormalised TEC values
\* in hundredths of a TECU
InferenceOutcomes ==
    {None,
     Some([h \in 1..ForecastHours |-> 1000]),
     Some([h \in 1..ForecastHours |-> 1000 + 100 * h])}

\* stores the climatology table is built from
EnsembleStores ==
    {{},
     {Measurement(DateTime(2015, 100, 0), 33, 10, None),
      Measurement(DateTime(2016, 100, 0), 37, 15, None),
      Measurement(DateTime(2015, 101, 0), 35, 14, None)},
     {Measurement(DateTime(2015, 100, 0), 33, 10, None),
      Measurement(DateTime(2015, 101, 0), 990, 16, None),
      Measurement(DateTime(2016, 366, 0), 30, 999, None)}}

\* ---- float arithmetic with NaN ----

IsNaN(x) ==
    x.den = 0

FAdd(a, b) ==
    IF IsNaN(a) \/ IsNaN(b) THEN NaN ELSE RatAdd(a, b)

FMul(a, b) ==
    IF IsNaN(a) \/ IsNaN(b) THEN NaN ELSE RatMul(a, b)

\* round(x, 2)
FRound2(x) ==
    IF IsNaN(x) THEN NaN ELSE Rat(Round2(x.num, x.den), 100)

\* np.isclose(a, b) with rtol = 1e-05 and atol = 1e-08, a and b in millionths:
\* |a - b| <= atol + rtol * |b|, that is 100000 * |a - b| <= 1000 + |b|
IsClose(a, b) ==
    Abs(a - b) <= (1000 + Abs(b)) \div 100000

\* f'{w:.0%}': the weight as a whole percentage
PercentOf(w) ==
    Round2(w, WeightUnit)

\* ---- EnsembleStormPredictor.__init__ ----

ensemble_init_no_validation(cw, mw, model_loads) ==
    [raised |-> FALSE, error |-> "",
     climatology_weight |-> cw, model_weight |-> mw,
     v2_model |-> IF model_loads THEN "trained" ELSE "untrained"]

\* __init__(model_path, climatology_weight, model_weight); the Oracle's
\* load_model builds a new, untrained model when the file cannot be loaded
ensemble_init(cw, mw, model_loads) ==
    IF ~IsClose(cw + mw, WeightUnit)
    THEN [raised |-> TRUE, error |-> "Weights must sum to 1.0",
          climatology_weight |-> 0, model_weight |-> 0, v2_model |-> "none"]
    ELSE [raised |-> FALSE, error |-> "",
          climatology_weight |-> cw, model_weight |-> mw,
          v2_model |-> IF model_loads THEN "trained" ELSE "untrained"]

\* ---- load_climatology ----

\* int(m.kp_index) for Kp in tenths
int_kp(kp) ==
    IF kp >= 0 THEN kp \div 10 ELSE -((-kp) \div 10)

\* default train_years: datetime(2022, 12, 31)
EnsembleTrainEnd ==
    DateTime(2022, 365, 0)

\* the cells "for doy in range(1, 366): for kp_bin in range(10)"
InFillGrid(key) ==
    /\ key[1] \in 1..365
    /\ key[2] \in 0..9

FillGridSize ==
    3650

\* some enumeration of a finite set
RECURSIVE SetToSeq(_)
SetToSeq(S) ==
    IF S = {} THEN <<>>
    ELSE LET x == CHOOSE y \in S : TRUE
         IN  <<x>> \o SetToSeq(S \ {x})

\* the table built by load_climatology on a new predictor: bins holds the
\* mean of every cell that has rows; every other cell of the fill grid holds
\* fill, the mean of all rows (NaN over no rows)
load_climatology(rows) ==
    LET keys == {<<tm_yday(rows[i].timestamp), int_kp(rows[i].kp_index)>> :
                    i \in 1..Len(rows)}
        cell(key) == SelectSeq(rows,
                        LAMBDA m : /\ tm_yday(m.timestamp) = key[1]
                                   /\ int_kp(m.kp_index) = key[2])
        mean(ms) == Rat(SeqSum([i \in 1..Len(ms) |-> ms[i].tec_mean]),
                        Len(ms))
    IN  [bins |-> [key \in keys |-> mean(cell(key))],
         fill |-> IF rows = <<>> THEN NaN ELSE mean(rows)]

\* self.climatology_table.get(key, np.mean(list(table.values())))
climatology_table_get(table, key) ==
    IF key \in DOMAIN table.bins THEN table.bins[key]
    ELSE IF InFillGrid(key) THEN table.fill
    ELSE LET binKeys == DOMAIN table.bins
             binSeq == SetToSeq(binKeys)
             missing == FillGridSize
                           - Cardinality({k \in binKeys : InFillGrid(k)})
         IN  IF IsNaN(table.fill) THEN NaN
             ELSE RatMul(RatAdd(RatSum([i \in 1..Len(binSeq) |->
                                           table.bins[binSeq[i]]]),
                                RatMul(Rat(missing, 1), table.fill)),
                         Rat(1, Cardinality(binKeys) + missing))

\* EnsembleStormPredictor.get_climatology_forecast(timestamp, kp_index)
ensemble_get_climatology_forecast(table, loaded, timestamp, kp_index) ==
    IF ~loaded THEN Rat(15, 1)
    ELSE climatology_table_get(table,
                               <<tm_yday(timestamp), int_kp(kp_index)>>)

\* ---- the Oracle: EnhancedStormPredictor.predict_storm ----

\* _get_default_prediction: what predict_storm returns when anything in its
\* body raises
v2_default_prediction ==
    [raised |-> FALSE,
     tec_forecast_24h |-> [h \in 1..ForecastHours |-> Rat(20, 1)],
     model_version |-> "Enhanced-BiLSTM-Attention-v2.0",
     has_error |-> TRUE]

\* predict_storm wraps its whole body in try/except Exception and returns
\* the default prediction from the handler: it never raises
v2_predict_storm(inference) ==
    IF inference = None THEN v2_default_prediction
    ELSE [raised |-> FALSE,
          tec_forecast_24h |-> [h \in 1..ForecastHours |->
                                   Rat(inference[1][h], 100)],
          model_version |-> "Enhanced-BiLSTM-Attention-v2.0",
          has_error |-> FALSE]

\* ---- EnsembleStormPredictor.predict_storm ----

BlendTag(cw, mw) ==
    [kind |-> "blend", climatology_pct |-> PercentOf(cw),
     model_pct |-> PercentOf(mw)]

ClimatologyOnlyTag ==
    [kind |-> "climatology_only", climatology_pct |-> 100, model_pct |-> 0]

\* the 24 climatology forecasts of a call, unrounded
climatology_forecasts(table, loaded, historical_data) ==
    LET latest_data == historical_data[Len(historical_data)]
        current_kp == IF latest_data.kp_index = None THEN 30
                      ELSE latest_data.kp_index[1]
    IN  [h \in 1..ForecastHours |->
            ensemble_get_climatology_forecast(table, loaded,
                latest_data.timestamp + h, current_kp)]

\* "ensemble = climatology_weight * clim + model_weight * v2; round(., 2)"
blend(cw, mw, clim, v2) ==
    FRound2(FAdd(FMul(Rat(cw, WeightUnit), clim),
                 FMul(Rat(mw, WeightUnit), v2)))

\* the dictionary of the "v2_available" branch
blended_result(cw, mw, clim, v2_prediction) ==
    [tec_forecast_24h |->
        [h \in 1..ForecastHours |->
            blend(cw, mw, clim[h], v2_prediction.tec_forecast_24h[h])],
     climatology_forecast |-> [h \in 1..ForecastHours |-> FRound2(clim[h])],
     ensemble_method |-> BlendTag(cw, mw),
     model_version |-> v2_prediction.model_version,
     has_error |-> v2_prediction.has_error]

\* the dictionary of the "Fallback to climatology only" branch
fallback_result(clim) ==
    [tec_forecast_24h |-> [h \in 1..ForecastHours |-> FRound2(clim[h])],
     climatology_forecast |-> [h \in 1..ForecastHours |-> FRound2(clim[h])],
     ensemble_method |-> ClimatologyOnlyTag,
     model_version |-> "Climatology-Only (V2.1 unavailable)",
     has_error |-> FALSE]

\* predict_storm(historical_data) with the Oracle's inference outcome
ensemble_predict_storm(cw, mw, table, loaded, historical_data, inference) ==
    LET v2_prediction == v2_predict_storm(inference)
        v2_available == ~v2_prediction.raised
    IN  IF historical_data = <<>>
        THEN [status |-> "raised", result |-> NoEnsembleResult]
        ELSE LET clim == climatology_forecasts(table, loaded, historical_data)
             IN  [status |-> "returned",
                  result |-> IF v2_available
                             THEN blended_result(cw, mw, clim, v2_prediction)
                             ELSE fallback_result(clim)]

\* ---- actions ----

\* EnsembleStormPredictor(model_path, climatology_weight, model_weight)
EnsembleConstruct ==
    /\ e_pc = "start"
    /\ \E cw \in WeightValues, mw \in WeightValues, model_loads \in BOOLEAN :
          /\ e_args' = [climatology_weight |-> cw, model_weight |-> mw,
                        model_loads |-> model_loads]
          /\ LET obj == ensemble_init(cw, mw, model_loads)
             IN  /\ e_pc' = IF obj.raised THEN "failed" ELSE "constructed"
                 /\ e_error' = obj.error
                 /\ climatology_weight' = obj.climatology_weight
                 /\ model_weight' = obj.model_weight
                 /\ v2_model' = obj.v2_model
    /\ UNCHANGED <<climatology_table, climatology_loaded, e_call, e_status,
                   e_result, store>>
    /\ UNCHANGED metricsVars
    /\ UNCHANGED detectVars
    /\ UNCHANGED climVars
    /\ UNCHANGED backtestVars
    /\ UNCHANGED optimizerVars
    /\ UNCHANGED historyVars
    /\ UNCHANGED impactVars

\* "if not ensemble.climatology_loaded: await ensemble.load_climatology()"
EnsembleLoadClimatology ==
    /\ e_pc = "constructed"
    /\ ~climatology_loaded
    /\ climatology_table' = load_climatology(
          get_measurements_by_time_range(store, TrainStart, EnsembleTrainEnd))
    /\ climatology_loaded' = TRUE
    /\ UNCHANGED <<e_pc, e_args, e_error, climatology_weight, model_weight,
                   v2_model, e_call, e_status, e_result, store>>
    /\ UNCHANGED metricsVars
    /\ UNCHANGED detectVars
    /\ UNCHANGED climVars
    /\ UNCHANGED backtestVars
    /\ UNCHANGED optimizerVars
    /\ UNCHANGED historyVars
    /\ UNCHANGED impactVars

\* one call predict_storm(historical_data)
EnsemblePredictStorm ==
    /\ e_pc = "constructed"
    /\ \E historical_data \in Histories, inference \in InferenceOutcomes :
          /\ e_call' = [historical_data |-> historical_data,
                        inference |-> inference]
          /\ LET out == ensemble_predict_storm(climatology_weight,
                           model_weight, climatology_table,
                           climatology_loaded, historical_data, inference)
             IN  /\ e_status' = out.status
                 /\ e_result' = out.result
    /\ UNCHANGED <<e_pc, e_args, e_error, climatology_weight, model_weight,
                   v2_model, climatology_table, climatology_loaded, store>>
    /\ UNCHANGED metricsVars
    /\ UNCHANGED detectVars
    /\ UNCHANGED climVars
    /\ UNCHANGED backtestVars
    /\ UNCHANGED optimizerVars
    /\ UNCHANGED historyVars
    /\ UNCHANGED impactVars

InitEnsemble ==
    /\ MetricsIdle
    /\ DetectIdle
    /\ ClimIdle
    /\ BacktestIdle
    /\ store \in EnsembleStores
    /\ e_pc = "start"
    /\ e_args = [climatology_weight |-> 700000, model_weight |-> 300000,
                 model_loads |-> TRUE]
    /\ EnsembleLocalsInit
    /\ OptimizerIdle
    /\ HistoryIdle
    /\ ImpactIdle

NextEnsemble ==
    \/ EnsembleConstruct
    \/ EnsembleLoadClimatology
    \/ EnsemblePredictStorm

SpecEnsemble ==
    InitEnsemble /\ [][NextEnsemble]_vars

\* ---- properties of the ensemble blender ----

\* the latest predict_storm call had no genuine Oracle output: the model file
\* could not be loaded (the Oracle runs a freshly built, untrained network)
\* or the inference raised
OracleUnavailableOrFailed ==
    \/ v2_model = "untrained"
    \/ e_call.inference = None

\* C11: when the Oracle is unavailable or its invocation fails, predict_storm
\* returns the pure climatology forecast tagged climatology-only; a result
\* without genuine Oracle output is never tagged as the weighted blend.
C11_FallbackTagged ==
    (e_status = "returned" /\ OracleUnavailableOrFailed) =>
        /\ e_result.ensemble_method = ClimatologyOnlyTag
        /\ e_result.tec_forecast_24h = e_result.climatology_forecast

\* C12: a constructor call whose weights do not sum to 1.0 within the
\* tolerance of np.isclose raises with a reason, and only such a call
\* raises; every blender that exists, and so every forecast, has weights
\* that sum to 1.0 within the tolerance.
C12_WeightsValidated ==
    /\ (e_pc \in {"constructed", "failed"}) =>
          ((e_pc = "failed") <=>
              ~IsClose(e_args.climatology_weight + e_args.model_weight,
                       WeightUnit))
    /\ (e_pc = "failed") =>
          /\ e_error = "Weights must sum to 1.0"
          /\ e_status = "none"
          /\ v2_model = "none"
    /\ (e_pc = "constructed") =>
          /\ climatology_weight = e_args.climatology_weight
          /\ model_weight = e_args.model_weight
          /\ Abs(climatology_weight + model_weight - WeightUnit) <= 10
    /\ (e_status # "none") => (e_pc = "constructed")

C12_Witness ==
    /\ e_pc = "failed"
    /\ e_args.climatology_weight + e_args.model_weight = WeightUnit + 11
    /\ e_error # ""

\* the Oracle's TEC value for forecast hour h of the latest call
OracleValue(h) ==
    v2_predict_storm(e_call.inference).tec_forecast_24h[h]

\* x lies between a and b, inclusive
LiesBetween(x, a, b) ==
    /\ ~IsNaN(x)
    /\ \/ ~RatLess(x, a) /\ ~RatLess(b, x)
       \/ ~RatLess(x, b) /\ ~RatLess(a, x)

\* C26: in every blended forecast, for whatever weights the constructor
\* accepted, each hourly value lies between that hour's climatology value
\* and Oracle value (both as reported, to two decimals), inclusive.
C26_BlendIsConvex ==
    (e_status = "returned" /\ e_result.ensemble_method.kind = "blend") =>
        \A h \in 1..ForecastHours :
            ~IsNaN(e_result.climatology_forecast[h]) =>
                LiesBetween(e_result.tec_forecast_24h[h],
                            e_result.climatology_forecast[h],
                            FRound2(OracleValue(h)))

-----------------------------------------------------------------------------
(* Threshold optimizer: BacktestingService.optimize_threshold              *)
(* Probabilities and thresholds are hundredths of a percent; scores are    *)
(* exact rationals.                                                        *)

\* blocks of samples appended to the five blocks of a large dataset
MaxTailBlocks ==
    1

\* calls of optimize_threshold made on the same samples
MaxOptimizerCalls ==
    2

NFolds ==
    5

MinFoldSize ==
    10

Percent ==
    100

DefaultBestThreshold ==
    4000

\* epsilon of the stability: 1.0 / (np.std(fold_scores) + 0.01)
StabilityEpsilon ==
    Rat(1, 100)

\* a sample (prediction, actual)
Hit ==
    <<9000, 9000>>

UnderPredicted ==
    <<3000, 9000>>

FalseAlarm ==
    <<3000, 500>>

Quiet ==
    <<500, 500>>

\* samples around the thresholds 10 %, 15 % and 20 %
Missed ==
    <<500, 2200>>

Weak ==
    <<1200, 2200>>

Spurious ==
    <<1200, 500>>

Overcalled ==
    <<2200, 500>>

OverPredicted ==
    <<2200, 1200>>

\* ten samples in which false negatives are the only errors above 30 % and
\* false alarms the only errors up to 30 %
ScenarioE_block ==
    <<Quiet, FalseAlarm, Hit, FalseAlarm, Quiet, UnderPredicted, FalseAlarm,
      Quiet, FalseAlarm, Quiet>>

\* ten samples every threshold classifies correctly
CleanBlock ==
    <<Quiet, Quiet, Hit, Quiet, Quiet, Quiet, Hit, Quiet, Quiet, Quiet>>

\* two samples left over after the five folds
TailBlock ==
    <<UnderPredicted, FalseAlarm>>

\* ten samples with Youden's J = -1/2 at the threshold 10 % and 0 above
SteadyBlock ==
    <<Missed, Weak, Spurious, Missed, Weak, Missed, Weak, Spurious, Missed,
      Weak>>

\* ten samples with Youden's J = -1/2 at the threshold 10 % and -1 at 15 %
\* and 20 %
ErraticBlock ==
    <<Missed, Weak, Overcalled, Missed, OverPredicted, Missed, Weak,
      Overcalled, Missed, OverPredicted>>

\* a forecast worse than chance: over the four validation folds the mean of
\* J is -1/2 at 10 %, 15 % and 20 %, with standard deviation 0 at 10 % and
\* 1/2 at 15 % and 20 %
WorseThanChance ==
    <<SteadyBlock, SteadyBlock, ErraticBlock, SteadyBlock, ErraticBlock>>

RECURSIVE Concat(_)
Concat(blocks) ==
    IF blocks = <<>> THEN <<>> ELSE Head(blocks) \o Concat(Tail(blocks))

\* fold patterns in which the scores of folds 1..4 take one value, or two
\* values twice each, so that their standard deviation is rational
FoldPatterns ==
    {f \in [1..4 -> {ScenarioE_block, CleanBlock}] :
        Cardinality({i \in 1..4 : f[i] = CleanBlock}) \in {0, 2, 4}}

\* datasets of 50 samples and more: a block for fold 0, four blocks for the
\* validation folds, and up to MaxTailBlocks leftover blocks
LargeDatasets ==
    {<<first>> \o f \o [i \in 1..k |-> TailBlock] :
        first \in {ScenarioE_block, CleanBlock}, f \in FoldPatterns,
        k \in 0..MaxTailBlocks}

\* datasets too small for five folds of ten
SmallDatasets ==
    {<<>>, <<ScenarioE_block>>, <<CleanBlock, TailBlock>>,
     <<ScenarioE_block, ScenarioE_block, CleanBlock>>,
     <<ScenarioE_block, CleanBlock, CleanBlock, ScenarioE_block,
       SubSeq(ScenarioE_block, 1, 9)>>}

ScenarioE_small ==
    Concat(<<ScenarioE_block>>)

ScenarioE_large ==
    Concat([i \in 1..5 |-> ScenarioE_block])

OptimizerDatasets ==
    {Concat(b) : b \in LargeDatasets \cup SmallDatasets
                        \cup {WorseThanChance}}

OptimizationMethods ==
    {"f1", "youden", "cost", "accuracy"}

\* threshold_step is any int; range() raises for 0, and a negative step
\* gives an empty range
ThresholdSteps ==
    {-5, 5, 20}

\* ---- helpers ----

\* seq[a:b] of Python (0-based, half-open)
Slice(seq, a, b) ==
    SubSeq(seq, a + 1, b)

Column(samples, c) ==
    [i \in 1..Len(samples) |-> samples[i][c]]

\* list(range(10, 91, threshold_step)) for a positive step
RECURSIVE RangeFrom(_, _, _)
RangeFrom(first, stop, step) ==
    IF first >= stop THEN <<>>
    ELSE <<first>> \o RangeFrom(first + step, stop, step)

threshold_range(threshold_step) ==
    IF threshold_step > 0
    THEN RangeFrom(10 * Percent, 91 * Percent, threshold_step * Percent)
    ELSE <<>>

RECURSIVE ISqrtFrom(_, _)
ISqrtFrom(n, r) ==
    IF (r + 1) * (r + 1) > n THEN r ELSE ISqrtFrom(n, r + 1)

\* floor of the square root of a natural number
ISqrt(n) ==
    ISqrtFrom(n, 0)

\* np.sqrt of a non-negative rational: exact when the rational is a square,
\* else rounded down to thousandths
Sqrt(v) ==
    LET rn == ISqrt(v.num)
        rd == ISqrt(v.den)
    IN  IF rn * rn = v.num /\ rd * rd = v.den THEN Rat(rn, rd)
        ELSE Rat(ISqrt((v.num * 1000000) \div v.den), 1000)

\* np.std(values): the population standard deviation
Std(values) ==
    LET mean == RatMean(values)
        sq == [i \in 1..Len(values) |->
                  RatMul(RatSub(values[i], mean), RatSub(values[i], mean))]
    IN  Sqrt(RatMean(sq))

RatDiv(a, b) ==
    IF b.num > 0 THEN Rat(a.num * b.den, a.den * b.num)
    ELSE Rat(-(a.num * b.den), a.den * (-b.num))

\* ---- the score of one evaluation ----

\* "sensitivity + specificity - 1" with specificity = 1 - false_alarm_rate
youden_j(recall, false_alarm_rate) ==
    RatSub(RatAdd(recall, RatSub(Rat(1, 1), false_alarm_rate)), Rat(1, 1))

score_of_costs_swapped(metrics, method, cost_false_alarm, cost_missed_storm) ==
    IF method = "f1" THEN metrics.f1_score
    ELSE IF method = "youden"
    THEN youden_j(metrics.recall, metrics.false_alarm_rate)
    ELSE IF method = "cost"
    THEN Rat(metrics.false_positives * cost_missed_storm
                + metrics.false_negatives * cost_false_alarm, 1)
    ELSE Rat(0, 1)

\* the if/elif chain on optimization_method
score_of(metrics, method, cost_false_alarm, cost_missed_storm) ==
    IF method = "f1" THEN metrics.f1_score
    ELSE IF method = "youden"
    THEN youden_j(metrics.recall, metrics.false_alarm_rate)
    ELSE IF method = "cost"
    THEN Rat(metrics.false_positives * cost_false_alarm
                + metrics.false_negatives * cost_missed_storm, 1)
    ELSE Rat(0, 1)

\* "if adjusted_score < best_score" for cost, "> best_score" otherwise;
\* best is None while best_score is +inf (cost) or -inf
improves(method, score, best) ==
    \/ best = None
    \/ /\ method = "cost"
       /\ RatLess(score, best[1])
    \/ /\ method # "cost"
       /\ RatLess(best[1], score)

\* ---- walk-forward cross-validation ----

fold_slice_to_end(fold, fold_size, n_samples) ==
    [val_start |-> fold * fold_size, val_end |-> n_samples]

\* "train_end = fold * fold_size; val_start = train_end;
\*  val_end = min((fold + 1) * fold_size, n_samples)"
fold_slice(fold, fold_size, n_samples) ==
    [val_start |-> fold * fold_size,
     val_end |-> Min((fold + 1) * fold_size, n_samples)]

\* the body of "for fold in range(1, n_folds)" for one fold
score_fold(preds, acts, fold, threshold, args) ==
    LET n_samples == Len(preds)
        sl == fold_slice(fold, n_samples \div NFolds, n_samples)
        metrics == calculate_metrics(Slice(preds, sl.val_start, sl.val_end),
                                     Slice(acts, sl.val_start, sl.val_end),
                                     threshold)
    IN  [fold |-> fold, val_start |-> sl.val_start, val_end |-> sl.val_end,
         metrics |-> metrics,
         score |-> score_of(metrics, args.optimization_method,
                            args.cost_false_alarm, args.cost_missed_storm)]

\* the folds scored for one threshold (a fold with an empty slice is skipped)
scored_folds(preds, acts, threshold, args) ==
    LET all == [f \in 1..(NFolds - 1) |->
                   score_fold(preds, acts, f, threshold, args)]
    IN  SelectSeq(all, LAMBDA x : x.val_end > x.val_start)

MetricMean(folds, field(_)) ==
    RatMean([i \in 1..Len(folds) |-> field(folds[i].metrics)])

\* the sweep entry of one threshold of the walk-forward sweep
cv_entry(folds, threshold, method) ==
    LET fold_scores == [i \in 1..Len(folds) |-> folds[i].score]
        avg_score == RatMean(fold_scores)
        score_std == Std(fold_scores)
        stability == RatDiv(Rat(1, 1), RatAdd(score_std, StabilityEpsilon))
        recall == MetricMean(folds, LAMBDA m : m.recall)
        far == MetricMean(folds, LAMBDA m : m.false_alarm_rate)
    IN  [threshold |-> threshold,
         f1_score |-> MetricMean(folds, LAMBDA m : m.f1_score),
         precision |-> MetricMean(folds, LAMBDA m : m.precision),
         recall |-> recall,
         accuracy |-> MetricMean(folds, LAMBDA m : m.accuracy),
         false_alarm_rate |-> far,
         youden_j |-> youden_j(recall, far),
         score |-> avg_score,
         stability |-> stability,
         score_std |-> score_std,
         adjusted_score |->
            IF method = "cost"
            THEN RatMul(avg_score, RatDiv(Rat(1, 1), stability))
            ELSE RatMul(avg_score, stability)]

single_fold_entry_first_fold(preds, acts, threshold, args) ==
    LET metrics == calculate_metrics(Slice(preds, 0, Len(preds) \div NFolds),
                                     Slice(acts, 0, Len(preds) \div NFolds),
                                     threshold)
        score == score_of(metrics, args.optimization_method,
                          args.cost_false_alarm, args.cost_missed_storm)
    IN  [threshold |-> threshold,
         f1_score |-> metrics.f1_score,
         precision |-> metrics.precision,
         recall |-> metrics.recall,
         accuracy |-> metrics.accuracy,
         false_alarm_rate |-> metrics.false_alarm_rate,
         youden_j |-> youden_j(metrics.recall, metrics.false_alarm_rate),
         score |-> score,
         stability |-> Rat(1, 1),
         score_std |-> Rat(0, 1),
         adjusted_score |-> score]

\* the sweep entry of one threshold of the single-fold sweep
single_fold_entry(preds, acts, threshold, args) ==
    LET metrics == calculate_metrics(preds, acts, threshold)
        score == score_of(metrics, args.optimization_method,
                          args.cost_false_alarm, args.cost_missed_storm)
    IN  [threshold |-> threshold,
         f1_score |-> metrics.f1_score,
         precision |-> metrics.precision,
         recall |-> metrics.recall,
         accuracy |-> metrics.accuracy,
         false_alarm_rate |-> metrics.false_alarm_rate,
         youden_j |-> youden_j(metrics.recall, metrics.false_alarm_rate),
         score |-> score,
         stability |-> Rat(1, 1),
         score_std |-> Rat(0, 1),
         adjusted_score |-> score]

\* ---- actions ----

\* optimize_threshold up to the sweep: the fold size decides between the
\* walk-forward sweep and _optimize_threshold_single_fold
OptimizeCall ==
    /\ o_pc = "call"
    /\ o_pc' = IF Len(o_args.predictions) \div NFolds < MinFoldSize
               THEN "single" ELSE "cv"
    /\ o_thresholds' = threshold_range(o_args.threshold_step)
    /\ o_tidx' = 1
    /\ best_score' = None
    /\ best_threshold' = DefaultBestThreshold
    /\ o_sweep' = <<>>
    /\ o_folds' = <<>>
    /\ UNCHANGED <<o_args, o_calls, o_result, store>>
    /\ UNCHANGED metricsVars
    /\ UNCHANGED detectVars
    /\ UNCHANGED climVars
    /\ UNCHANGED backtestVars
    /\ UNCHANGED ensembleVars
    /\ UNCHANGED historyVars
    /\ UNCHANGED impactVars

\* one iteration of "for threshold in thresholds" of optimize_threshold
OptimizeCvStep ==
    /\ o_pc = "cv"
    /\ o_tidx <= Len(o_thresholds)
    /\ LET threshold == o_thresholds[o_tidx]
           folds == scored_folds(o_args.predictions, o_args.actuals,
                                 threshold, o_args)
       IN  /\ o_folds' = folds
           /\ IF folds = <<>>
              THEN UNCHANGED <<o_sweep, best_score, best_threshold>>
              ELSE LET entry == cv_entry(folds, threshold,
                                         o_args.optimization_method)
                       better == improves(o_args.optimization_method,
                                          entry.adjusted_score, best_score)
                   IN  /\ o_sweep' = Append(o_sweep, entry)
                       /\ best_score' = IF better
                                        THEN Some(entry.adjusted_score)
                                        ELSE best_score
                       /\ best_threshold' = IF better THEN threshold
                                            ELSE best_threshold
    /\ o_tidx' = o_tidx + 1
    /\ UNCHANGED <<o_pc, o_args, o_calls, o_thresholds, o_result, store>>
    /\ UNCHANGED metricsVars
    /\ UNCHANGED detectVars
    /\ UNCHANGED climVars
    /\ UNCHANGED backtestVars
    /\ UNCHANGED ensembleVars
    /\ UNCHANGED historyVars
    /\ UNCHANGED impactVars

\* one iteration of the sweep of _optimize_threshold_single_fold
OptimizeSingleFoldStep ==
    /\ o_pc = "single"
    /\ o_tidx <= Len(o_thresholds)
    /\ LET threshold == o_thresholds[o_tidx]
           entry == single_fold_entry(o_args.predictions, o_args.actuals,
                                      threshold, o_args)
           better == improves(o_args.optimization_method,
                              entry.adjusted_score, best_score)
       IN  /\ o_sweep' = Append(o_sweep, entry)
           /\ best_score' = IF better THEN Some(entry.adjusted_score)
                            ELSE best_score
           /\ best_threshold' = IF better THEN threshold ELSE best_threshold
    /\ o_tidx' = o_tidx + 1
    /\ UNCHANGED <<o_pc, o_args, o_calls, o_thresholds, o_folds, o_result,
                   store>>
    /\ UNCHANGED metricsVars
    /\ UNCHANGED detectVars
    /\ UNCHANGED climVars
    /\ UNCHANGED backtestVars
    /\ UNCHANGED ensembleVars
    /\ UNCHANGED historyVars
    /\ UNCHANGED impactVars

\* after the sweep: the metrics of the best threshold over all the samples,
\* and the returned dictionary
OptimizeFinish ==
    /\ o_pc \in {"cv", "single"}
    /\ o_tidx > Len(o_thresholds)
    /\ o_result' =
          [optimal_threshold |-> best_threshold,
           optimization_method |-> o_args.optimization_method,
           best_score |-> best_score,
           threshold_sweep |-> o_sweep,
           optimal_metrics |-> calculate_metrics(o_args.predictions,
                                  o_args.actuals, best_threshold),
           n_folds |-> IF o_pc = "cv" THEN NFolds ELSE 1,
           validation_type |-> IF o_pc = "cv" THEN "walk_forward_cv"
                               ELSE "single_fold"]
    /\ o_pc' = "done"
    /\ UNCHANGED <<o_args, o_calls, o_thresholds, o_tidx, best_score,
                   best_threshold, o_sweep, o_folds, store>>
    /\ UNCHANGED metricsVars
    /\ UNCHANGED detectVars
    /\ UNCHANGED climVars
    /\ UNCHANGED backtestVars
    /\ UNCHANGED ensembleVars
    /\ UNCHANGED historyVars
    /\ UNCHANGED impactVars

\* optimize_threshold is called again on the same samples with another
\* optimization_method
OptimizeCallAgain ==
    /\ o_pc = "done"
    /\ Len(o_calls) < MaxOptimizerCalls - 1
    /\ \E method \in OptimizationMethods :
          /\ method # o_args.optimization_method
          /\ \A i \in 1..Len(o_calls) : o_calls[i].optimization_method # method
          /\ o_args' = [o_args EXCEPT !.optimization_method = method]
    /\ o_calls' = Append(o_calls,
                         [optimization_method |-> o_args.optimization_method,
                          optimal_threshold |-> o_result.optimal_threshold])
    /\ o_pc' = "call"
    /\ UNCHANGED <<o_thresholds, o_tidx, best_score, best_threshold, o_sweep,
                   o_folds, o_result, store>>
    /\ UNCHANGED metricsVars
    /\ UNCHANGED detectVars
    /\ UNCHANGED climVars
    /\ UNCHANGED backtestVars
    /\ UNCHANGED ensembleVars
    /\ UNCHANGED historyVars
    /\ UNCHANGED impactVars

InitOptimizer ==
    /\ MetricsIdle
    /\ DetectIdle
    /\ ClimIdle
    /\ BacktestIdle
    /\ EnsembleIdle
    /\ store = {}
    /\ o_pc = "call"
    /\ \E samples \in OptimizerDatasets, method \in OptimizationMethods,
          threshold_step \in ThresholdSteps :
          o_args = [predictions |-> Column(samples, 1),
                    actuals |-> Column(samples, 2),
                    optimization_method |-> method,
                    cost_false_alarm |-> 1,
                    cost_missed_storm |-> 5,
                    threshold_step |-> threshold_step]
    /\ o_calls = <<>>
    /\ OptimizerLocalsInit
    /\ HistoryIdle
    /\ ImpactIdle

NextOptimizer ==
    \/ OptimizeCall
    \/ OptimizeCvStep
    \/ OptimizeSingleFoldStep
    \/ OptimizeFinish
    \/ OptimizeCallAgain

SpecOptimizer ==
    InitOptimizer /\ [][NextOptimizer]_vars

\* ---- properties of the optimizer ----

\* the optimal_threshold a completed call with this method selected
SelectedBy(method) ==
    IF o_pc = "done" /\ o_args.optimization_method = method
    THEN Some(o_result.optimal_threshold)
    ELSE LET hits == {i \in 1..Len(o_calls) :
                         o_calls[i].optimization_method = method}
         IN  IF hits = {} THEN None
             ELSE Some(o_calls[CHOOSE i \in hits : TRUE].optimal_threshold)

IsScenarioE ==
    /\ o_args.threshold_step >= 1
    /\ o_args.cost_false_alarm = 1
    /\ o_args.cost_missed_storm = 5
    /\ \/ /\ o_args.predictions = Column(ScenarioE_small, 1)
          /\ o_args.actuals = Column(ScenarioE_small, 2)
       \/ /\ o_args.predictions = Column(ScenarioE_large, 1)
          /\ o_args.actuals = Column(ScenarioE_large, 2)

NotWorse(method, entries, i, j) ==
    IF method = "cost"
    THEN ~RatLess(entries[j].adjusted_score, entries[i].adjusted_score)
    ELSE ~RatLess(entries[i].adjusted_score, entries[j].adjusted_score)

\* C21: the optimal_threshold returned is an entry of the returned sweep,
\* and it is the first entry in ascending order whose adjusted score is the
\* best of the sweep (maximum, minimum for "cost"), for every method and
\* every step size the call accepts.
C21_OptimalInSweep ==
    (o_pc = "done") =>
        LET entries == o_result.threshold_sweep
            method == o_result.optimization_method
        IN  \E i \in 1..Len(entries) :
               /\ entries[i].threshold = o_result.optimal_threshold
               /\ \A j \in 1..Len(entries) : NotWorse(method, entries, i, j)
               /\ \A j \in 1..(i - 1) : ~NotWorse(method, entries, j, i)
               /\ \A j \in 1..(Len(entries) - 1) :
                     entries[j].threshold < entries[j + 1].threshold

\* C22: the selection criterion of the walk-forward sweep prefers
\* consistency: of two sweep entries with the same mean fold score, the one
\* with the strictly smaller standard deviation of fold scores is never
\* ranked worse, for every method.
C22_PrefersConsistency ==
    (o_pc = "cv") =>
        \A i, j \in 1..Len(o_sweep) :
            (/\ o_sweep[i].score = o_sweep[j].score
             /\ RatLess(o_sweep[i].score_std, o_sweep[j].score_std)) =>
                NotWorse(o_args.optimization_method, o_sweep, i, j)

\* C23: with fewer than 50 samples (fold size n div 5 below 10) the call
\* does not fail and scores no partial fold: every candidate threshold is
\* evaluated once on the whole dataset, every sweep entry has stability 1
\* and score_std 0, and the result is marked single-fold; with 50 samples
\* or more the result is never single-fold.
C23_SingleFoldFallback ==
    LET n == Len(o_args.predictions)
    IN  /\ (o_pc = "single") => (n < 50 /\ o_folds = <<>>)
        /\ (o_pc = "cv") => (n >= 50)
        /\ (o_pc = "done") =>
              /\ (o_result.validation_type = "single_fold") <=> (n < 50)
              /\ (o_result.validation_type = "walk_forward_cv") <=> (n >= 50)
              /\ (n < 50) =>
                    LET entries == o_result.threshold_sweep
                    IN  /\ o_result.n_folds = 1
                        /\ o_folds = <<>>
                        /\ [i \in 1..Len(entries) |-> entries[i].threshold]
                              = o_thresholds
                        /\ \A i \in 1..Len(entries) :
                              LET whole == calculate_metrics(
                                              o_args.predictions,
                                              o_args.actuals,
                                              entries[i].threshold)
                              IN  /\ entries[i].stability = Rat(1, 1)
                                  /\ entries[i].score_std = Rat(0, 1)
                                  /\ entries[i].adjusted_score
                                        = entries[i].score
                                  /\ entries[i].f1_score = whole.f1_score
                                  /\ entries[i].precision = whole.precision
                                  /\ entries[i].recall = whole.recall
                                  /\ entries[i].accuracy = whole.accuracy
                                  /\ entries[i].false_alarm_rate
                                        = whole.false_alarm_rate

\* a completed call on 49 samples (fold size 9) with a full sweep
C23_Witness ==
    /\ o_pc = "done"
    /\ Len(o_args.predictions) = 49
    /\ o_result.validation_type = "single_fold"
    /\ Len(o_result.threshold_sweep) = 17

\* a completed call on no samples
C23_WitnessEmpty ==
    /\ o_pc = "done"
    /\ Len(o_args.predictions) = 0
    /\ o_result.validation_type = "single_fold"
    /\ Len(o_result.threshold_sweep) >= 1

\* the samples of positions [a, b) (0-based) of a dataset
SamplesIn(preds, acts, a, b) ==
    <<Slice(preds, a, b), Slice(acts, a, b)>>

\* C20: in the walk-forward sweep the folds scored for a threshold are the
\* folds 1..4, fold f covers the positions [f*s, (f+1)*s) with s = n div 5,
\* so the slices are disjoint, contiguous and in chronological order, and
\* the score of fold f is the same for every dataset of the same length that
\* has the same samples in that slice, whatever lies after (or before) it.
C20_FoldScoredAlone ==
    (o_pc = "cv" /\ o_tidx > 1) =>
        LET n == Len(o_args.predictions)
            s == n \div NFolds
            threshold == o_thresholds[o_tidx - 1]
        IN  /\ Len(o_folds) = NFolds - 1
            /\ \A f \in 1..(NFolds - 1) :
                  /\ o_folds[f].fold = f
                  /\ o_folds[f].val_start = f * s
                  /\ o_folds[f].val_end = (f + 1) * s
                  /\ o_folds[f].val_end <= n
                  /\ \A other \in OptimizerDatasets :
                        (/\ Len(other) = n
                         /\ SamplesIn(Column(other, 1), Column(other, 2),
                                      f * s, (f + 1) * s)
                               = SamplesIn(o_args.predictions, o_args.actuals,
                                           f * s, (f + 1) * s))
                        => (score_fold(Column(other, 1), Column(other, 2),
                                       f, threshold, o_args).score
                               = o_folds[f].score)

\* a walk-forward sweep over 52 samples whose later folds differ from fold 1
C20_Witness ==
    /\ o_pc = "cv"
    /\ o_tidx > 1
    /\ Len(o_args.predictions) = 52
    /\ o_args.optimization_method = "cost"
    /\ Len(o_folds) = 4
    /\ o_folds[1].score # o_folds[4].score
    /\ o_folds[4].val_end = 50

-----------------------------------------------------------------------------
(* The whole engine: each behaviour exercises one component                *)

-----------------------------------------------------------------------------
(* In-memory history: DataService                                          *)
(* Entries are data points [timestamp, source]; live entries are numbered  *)
(* in the order they were collected.                                       *)

\* collect_all_data calls of a behaviour that succeed
MaxCollects ==
    170

\* rows returned by get_latest_measurements(session, limit=24)
LoadLimit ==
    24

\* timestamp of the first collected data point
HistoryNow ==
    DateTime(2024, 100, 0)

\* row counts of the stores the service is started over
HistoryStoreSizes ==
    {0, 3, 30}

HistoryStores ==
    {{Measurement(ts, 30, 10, None) : ts \in 0..(n - 1)} :
        n \in HistoryStoreSizes}

\* SELECT ... ORDER BY timestamp DESC LIMIT limit
get_latest_measurements(rows, limit) ==
    LET ascending == OrderByTimestamp(rows)
        n == Min(limit, Len(ascending))
    IN  [i \in 1..n |-> ascending[Len(ascending) - i + 1]]

\* list(reversed(seq))
Reversed(seq) ==
    [i \in 1..Len(seq) |-> seq[Len(seq) - i + 1]]

DataPointOf(ts, source) ==
    [timestamp |-> ts, source |-> source]

deque_append_unbounded(dq, maxlen, x) ==
    Append(dq, x)

deque_append_drops_newest(dq, maxlen, x) ==
    IF Len(dq) >= maxlen THEN dq ELSE Append(dq, x)

\* deque(maxlen=maxlen).append(x): a full deque discards its leftmost item
deque_append(dq, maxlen, x) ==
    IF maxlen = 0 THEN dq
    ELSE IF Len(dq) >= maxlen THEN Append(Tail(dq), x)
    ELSE Append(dq, x)

RECURSIVE deque_extend(_, _, _)
deque_extend(dq, maxlen, xs) ==
    IF xs = <<>> THEN dq
    ELSE deque_extend(deque_append(dq, maxlen, Head(xs)), maxlen, Tail(xs))

\* _load_historical_data_from_db: the latest 24 rows, oldest first, are
\* appended; a failing session leaves the history as it is
load_historical_data_from_db(dq, rows, db_ok) ==
    IF ~db_ok THEN dq
    ELSE LET latest == Reversed(get_latest_measurements(rows, LoadLimit))
         IN  deque_extend(dq, MaxHistorySize,
                 [i \in 1..Len(latest) |->
                     DataPointOf(latest[i].timestamp, "db")])

\* initialize(): the collectors are created and the history is loaded
HistoryInitialize ==
    /\ h_pc = "new"
    /\ \E db_ok \in BOOLEAN :
          h_historical_data' = load_historical_data_from_db(h_historical_data,
                                 store, db_ok)
    /\ h_pc' = "ready"
    /\ UNCHANGED <<h_latest_data, h_last_data_update, h_return, h_collected,
                   store>>
    /\ UNCHANGED metricsVars
    /\ UNCHANGED detectVars
    /\ UNCHANGED climVars
    /\ UNCHANGED backtestVars
    /\ UNCHANGED ensembleVars
    /\ UNCHANGED optimizerVars
    /\ UNCHANGED impactVars

\* collect_all_data(): any collector or parser may raise, and the handler
\* returns {}; before initialize() the collectors are None and every call
\* raises
CollectAllData ==
    /\ h_pc \in {"new", "ready"}
    /\ \E collected \in IF h_pc = "ready" /\ h_collected < MaxCollects
                        THEN BOOLEAN ELSE {FALSE} :
          IF collected
          THEN LET combined_data == DataPointOf(HistoryNow + h_collected,
                                                "live")
               IN  /\ h_historical_data' = deque_append(h_historical_data,
                                             MaxHistorySize, combined_data)
                   /\ h_latest_data' = Some(combined_data)
                   /\ h_last_data_update' = Some(combined_data.timestamp)
                   /\ h_return' = "data"
                   /\ h_collected' = h_collected + 1
          ELSE /\ h_return' = "empty"
               /\ UNCHANGED <<h_historical_data, h_latest_data, h_last_data_update,
                              h_collected>>
    /\ UNCHANGED <<h_pc, store>>
    /\ UNCHANGED metricsVars
    /\ UNCHANGED detectVars
    /\ UNCHANGED climVars
    /\ UNCHANGED backtestVars
    /\ UNCHANGED ensembleVars
    /\ UNCHANGED optimizerVars
    /\ UNCHANGED impactVars

InitHistory ==
    /\ MetricsIdle
    /\ DetectIdle
    /\ ClimIdle
    /\ BacktestIdle
    /\ EnsembleIdle
    /\ OptimizerIdle
    /\ store \in HistoryStores
    /\ h_historical_data = <<>>
    /\ h_latest_data = None
    /\ h_last_data_update = None
    /\ h_pc = "new"
    /\ h_return = "none"
    /\ h_collected = 0
    /\ ImpactIdle

NextHistory ==
    \/ HistoryInitialize
    \/ CollectAllData

SpecHistory ==
    InitHistory /\ [][NextHistory]_vars

\* ---- properties of the in-memory history ----

\* C28: the history never holds more than max_history_size entries; a
\* successful collect_all_data appends its data point at the right end,
\* dropping exactly the leftmost entry when the history is full and nothing
\* otherwise, and makes it latest_data; a failed call returns {} and leaves
\* the history, h_latest_data and h_last_data_update as they were; the initial
\* load leaves the latest rows of the store in ascending time order.
C28_BoundedFifo ==
    /\ [](Len(h_historical_data) <= MaxHistorySize)
    /\ [][/\ (h_return' = "data" /\ h_collected' # h_collected) =>
                /\ h_historical_data'[Len(h_historical_data')]
                      = h_latest_data'[1]
                /\ h_latest_data' # h_latest_data
                /\ IF Len(h_historical_data) = MaxHistorySize
                   THEN /\ Len(h_historical_data') = MaxHistorySize
                        /\ \A i \in 1..(MaxHistorySize - 1) :
                              h_historical_data'[i] = h_historical_data[i + 1]
                   ELSE /\ Len(h_historical_data') = Len(h_historical_data) + 1
                        /\ \A i \in 1..Len(h_historical_data) :
                              h_historical_data'[i] = h_historical_data[i]
          /\ (h_return' = "empty" /\ h_pc' = h_pc) =>
                /\ h_historical_data' = h_historical_data
                /\ h_latest_data' = h_latest_data
                /\ h_last_data_update' = h_last_data_update
          /\ (h_pc = "new" /\ h_pc' = "ready") =>
                /\ Len(h_historical_data') <= LoadLimit
                /\ \A i \in 1..(Len(h_historical_data') - 1) :
                      h_historical_data'[i].timestamp
                          < h_historical_data'[i + 1].timestamp
                /\ \A i \in 1..Len(h_historical_data') :
                      \E m \in store :
                         /\ m.timestamp = h_historical_data'[i].timestamp
                         /\ Cardinality({o \in store :
                                o.timestamp > m.timestamp})
                               = Len(h_historical_data') - i
         ]_vars

\* a data point was collected into a full history that holds no loaded row
\* any more
C28_Witness ==
    /\ Len(h_historical_data) = MaxHistorySize
    /\ h_collected > MaxHistorySize
    /\ h_return = "data"
    /\ h_historical_data[1].source = "live"
    /\ h_historical_data[1].timestamp = HistoryNow + h_collected - MaxHistorySize
    /\ h_latest_data = Some(h_historical_data[MaxHistorySize])

\* a failed call left a full history as it was
C28_WitnessFailed ==
    /\ Len(h_historical_data) = MaxHistorySize
    /\ h_return = "empty"
    /\ h_historical_data[1].source = "db"
    /\ h_latest_data # None

-----------------------------------------------------------------------------
(* Impact assessment: ImpactAssessmentService.assess_impacts               *)
(* Probabilities are percentages, Kp is in tenths, TEC in TECU, latitude   *)
(* in degrees; scores are tenths of a point.                               *)

\* valid inputs of the calls: probability in [0, 1] (as a percentage), Kp in
\* [0, 9], TEC >= 0, latitude in [-90, 90]
ImpactProbabilities ==
    {0, 2, 50, 100}

ImpactKps ==
    {0, 10, 30, 90}

ImpactTecs ==
    {0, 10, 20, 50, 300}

ImpactLatitudes ==
    {-90, 0, 45, 90}

\* the largest r with r * r <= n
FloorSqrt(n) ==
    CHOOSE r \in 0..6000 : r * r <= n /\ (r + 1) * (r + 1) > n

\* (kp / 3.0) ** 1.5 to three decimals, kp in tenths
kp_power(kp) ==
    Rat(FloorSqrt((kp * kp * kp * 1000) \div 27), 1000)

\* round(x, 1) in tenths
Round1(x) ==
    Round2(x.num, 10 * x.den)

RatMin(a, b) ==
    IF RatLess(b, a) THEN b ELSE a

RatMax(a, b) ==
    IF RatLess(a, b) THEN b ELSE a

\* _get_severity_label(score), score a rational
get_severity_label(score) ==
    IF RatLess(score, Rat(2, 1)) THEN "minimal"
    ELSE IF RatLess(score, Rat(4, 1)) THEN "low"
    ELSE IF RatLess(score, Rat(6, 1)) THEN "moderate"
    ELSE IF RatLess(score, Rat(8, 1)) THEN "high"
    ELSE "severe"

\* _assess_gps_impact(probability, kp, tec, lat)
assess_gps_impact(probability, kp, tec, lat) ==
    LET base_error == Rat(35, 10)
        tec_factor == Rat(tec, 20)
        kp_factor == RatAdd(Rat(1, 1), kp_power(kp))
        prob_factor == RatAdd(Rat(1, 1), Rat(2 * probability, 100))
        lat_factor == RatAdd(Rat(1, 1), Rat(Abs(lat), 180))
        degraded_error == RatMul(RatMul(RatMul(RatMul(base_error, tec_factor),
                                               kp_factor),
                                        prob_factor),
                                 lat_factor)
        impact_score == RatMin(Rat(10, 1),
                               RatMax(Rat(1, 1),
                                      RatDiv(degraded_error, Rat(3, 1))))
    IN  [degraded_accuracy_m |-> Round1(degraded_error),
         impact_score |-> Round1(impact_score),
         impact_level |-> get_severity_label(impact_score)]

\* _calculate_overall_severity(probability, kp, tec): the rounded weighted
\* sum, in tenths
calculate_overall_severity(probability, kp, tec) ==
    LET prob_score == Rat(probability, 10)
        kp_score == Rat(kp, 9)
        tec_score == RatMin(Rat(10, 1), Rat(tec, 5))
        overall == RatAdd(RatAdd(RatMul(prob_score, Rat(5, 10)),
                                 RatMul(kp_score, Rat(3, 10))),
                          RatMul(tec_score, Rat(2, 10)))
    IN  Round1(overall)

\* assess_impacts: the gps and overall parts of the returned dictionary (no
\* step of the body raises for numeric inputs, so the default assessment of
\* the handler is not returned)
assess_impacts(args) ==
    LET prob_24h_pct == args.probability_24h
        overall_severity == calculate_overall_severity(prob_24h_pct,
                                args.kp_index, args.tec_mean)
    IN  [gps |-> assess_gps_impact(prob_24h_pct, args.kp_index,
                                   args.tec_mean, args.latitude),
         overall |-> [severity_score |-> overall_severity,
                      severity_level |->
                          get_severity_label(Rat(overall_severity, 10)),
                      confidence |-> IF prob_24h_pct > 50 THEN "high"
                                     ELSE "medium"]]

\* one call assess_impacts(...)
AssessImpacts ==
    /\ i_pc = "call"
    /\ i_result' = assess_impacts(i_args)
    /\ i_pc' = "done"
    /\ UNCHANGED <<i_args, store>>
    /\ UNCHANGED metricsVars
    /\ UNCHANGED detectVars
    /\ UNCHANGED climVars
    /\ UNCHANGED backtestVars
    /\ UNCHANGED ensembleVars
    /\ UNCHANGED optimizerVars
    /\ UNCHANGED historyVars

InitImpact ==
    /\ MetricsIdle
    /\ DetectIdle
    /\ ClimIdle
    /\ BacktestIdle
    /\ EnsembleIdle
    /\ OptimizerIdle
    /\ HistoryIdle
    /\ store = {}
    /\ \E p \in ImpactProbabilities, kp \in ImpactKps, tec \in ImpactTecs,
          lat \in ImpactLatitudes :
          i_args = [probability_24h |-> p, kp_index |-> kp, tec_mean |-> tec,
                    latitude |-> lat]
    /\ i_result = NoAssessment
    /\ i_pc = "call"

NextImpact ==
    AssessImpacts

SpecImpact ==
    InitImpact /\ [][NextImpact]_vars

\* ---- properties of the impact assessment ----

\* C30: for valid inputs, assess_impacts reports a GPS impact score within
\* [1, 10] and an overall severity score within [1, 10].
C30_ScoresInRange ==
    (i_pc = "done") =>
        /\ i_result.gps.impact_score >= 10
        /\ i_result.gps.impact_score <= 100
        /\ i_result.overall.severity_score >= 10
        /\ i_result.overall.severity_score <= 100

Init ==
    \/ InitMetrics
    \/ InitDetect
    \/ InitClim
    \/ InitBacktest
    \/ InitEnsemble
    \/ InitOptimizer
    \/ InitHistory
    \/ InitImpact

Next ==
    \/ NextMetrics
    \/ NextDetect
    \/ NextClim
    \/ NextBacktest
    \/ NextEnsemble
    \/ NextOptimizer
    \/ NextHistory
    \/ NextImpact

Spec ==
    Init /\ [][Next]_vars

=============================================================================
